---------------------------- MODULE Spec2Model ----------------------------
(***************************************************************************)
(* Harvesting-and-reconciliation pipeline of the Glorri job scraper:       *)
(*   api_scraper.py      paginated collector                               *)
(*   page_parser.py /    detail extractors                                 *)
(*   page_scraper.py                                                       *)
(*   scraper.py          full-swap orchestrator                            *)
(*   main_scraper.py     time-window orchestrator (threads)                *)
(*   main_scraper_async.py  time-window orchestrator (asyncio)             *)
(*   database.py         store                                             *)
(*                                                                         *)
(*   discover_all_companies.py  listing walker                             *)
(*   work_az_client.py   worker-profile client                             *)
(*                                                                         *)
(* The specifications of the module share its variables; each keeps the    *)
(* variables of the others at their idle values:                           *)
(*   SpecMerge     one call of enhance_single_job / scrape_single_job      *)
(*   SpecCollect   the per-company collection loop over a paginated API    *)
(*   Spec          one run of an orchestrator against the store            *)
(*   SpecFetch     calls of JobPageParser.scrape_job_page                  *)
(*   SpecDiscover  one call of get_all_companies                           *)
(*   SpecPages     one walk of _scrape_all_pages                           *)
(*   SpecUpsert    store writes made twice                                 *)
(*   SpecSanitise  one text value bound by a writer                        *)
(*   SpecSweep     the writes of a time-window run and its cleanup         *)
(*   SpecEnhance   the enrichment loop of the full-swap orchestrator       *)
(*   SpecWorkers   one call of get_all_workers                             *)
(*   SpecIterate   one call of scrape_all_jobs_iteratively                 *)
(***************************************************************************)
EXTENDS Integers, Sequences, FiniteSets, TLC

VARIABLES
    \* ---- SpecMerge: one enrichment call
    m_pc,        \* "idle" (specification not in use) | "call" | "done"
    m_variant,   \* which orchestrator's merge function is called
    m_job,       \* the base record handed to the call
    m_outcome,   \* what scrape_job_page does in this call
    m_out,       \* the record the call returns
    \* ---- SpecCollect: collection loop of main_scraper.py
    c_pc,        \* "idle" | "loop" | "done"
    c_discovered,\* discovered_companies
    c_i,         \* number of companies the loop has been through
    c_called,    \* the companies get_all_company_jobs was called for
    c_up,        \* the upstream of the company collected last
    c_res,       \* result of the last get_all_company_jobs call
    c_api_jobs,  \* api_jobs of the orchestrator: <<company, record>> pairs
    c_errors,    \* stats['errors']
    \* ---- Spec: one run of an orchestrator
    p_pc,        \* "idle" | the step the run is at | "done"
    p_config,    \* the orchestrator and its arguments
    p_fault,     \* the store step at which the connection fails, or "none"
    p_prior,     \* the store as the run found it
    p_db,        \* the store
    p_companies, \* the discovered companies
    p_ci,        \* number of companies collected
    p_failed,    \* the companies whose collection failed
    p_api_jobs,  \* api_jobs
    p_input,     \* the records handed to the enrichment calls
    p_pending,   \* indices of p_input whose call has not finished
    p_outcomes,  \* index of p_input -> kind of its call's outcome
    p_detailed,  \* results of the finished calls
    p_to_store,  \* the list handed to the job writer
    p_stats,     \* stats of the run
    p_events,    \* log: what the run has done, in order
    \* ---- SpecFetch: the fetch client
    f_pc,           \* "off" | "idle" (between calls) | "attempt" (in the retry loop)
    f_client,       \* the JobPageParser's session and counters
    f_attempt,      \* attempt of the retry loop
    f_call_gets,    \* GETs the current call has sent
    f_result,       \* what the call returned: "data" | "None"
    f_last,         \* what the last GET met
    f_get,          \* the last GET: its session and what preceded it
    f_after_block,  \* the last GET met a 429 or block status
    f_blocked_ua,   \* user-agent of the session that met it
    f_consec,       \* failed calls in a row, counted up to FailLimit
    \* ---- SpecDiscover: get_all_companies
    g_pc,           \* "off" | "queries" | "offsets" | "done"
    g_i,            \* passes made through the current loop
    g_companies,    \* companies
    g_attempted,    \* the requests made
    g_failed,       \* how many requests failed
    g_result,       \* the list returned
    \* ---- SpecPages: the primary walk of discover_all_companies
    w_pc,           \* "off" | "first" | "walk" | "done"
    w_form,         \* position in param_combinations of the request that succeeds
    w_n,            \* records of the upstream listing
    w_skip,         \* skip
    w_page,         \* page
    w_companies,    \* companies (a record stands for its company)
    w_requests,     \* requests made by _scrape_all_pages
    w_starts,       \* the first record of each page it was served
    w_error,        \* the walk ended on a non-200 status or an exception
    \* ---- SpecUpsert: the writes of the store, made twice
    u_pc,           \* "off" | "first" | "second" | "done"
    u_input,        \* the calls of one reconciliation
    u_k,            \* the next call of the pass
    u_db,           \* the store
    u_first,        \* the store as the first pass left it
    u_now,          \* CURRENT_TIMESTAMP of the pass
    u_written,      \* the rows the last call supplied, if it succeeded
    \* ---- SpecSanitise: one text value on its way into the store
    t_pc,           \* "off" | "raw" | "handed" | "done"
    t_variant,      \* the orchestrator writing
    t_field,        \* the column
    t_value,        \* the value of the record's field
    t_handed,       \* the value bound to the statement
    t_ok,           \* the write succeeded
    \* ---- SpecSweep: the writes of a time-window run and its cleanup
    s_pc,           \* "off" | "mark" | "companies" | "jobs" | "cleanup" | "done"
    s_skew,         \* hours the orchestrator's clock is ahead of the store's
    s_ts,           \* scrape_timestamp
    s_api,          \* api_jobs
    s_detailed,     \* detailed_jobs
    s_prior,        \* the store as earlier runs left it
    s_db,           \* the store
    s_before,       \* the store when cleanup_old_data was called
    s_committed,    \* cleanup_old_data committed
    s_stats,        \* cleanup_stats
    \* ---- SpecEnhance: _enhance_jobs_with_details of scraper.py
    e_pc,           \* "off" | "loop" | "await" | "sleep" | "done"
    e_n,            \* len(jobs_with_urls)
    e_i,            \* number of records the loop has started
    e_sem,          \* value of the semaphore
    e_running,      \* records whose scrape_job_page is executing in a pool thread
    e_enhanced,     \* enhanced_jobs, as what each record's call came to
    \* ---- SpecWorkers: get_all_workers of work_az_client.py
    a_pc,           \* "off" | "first" | "batch" | "done" | "raised"
    a_upstream,     \* what the API does for each page
    a_batch_size,   \* batch_size
    a_total,        \* total_pages
    a_start,        \* batch_start
    a_batches,      \* the lists of pages handed to get_multiple_pages
    a_requested,    \* pages requested, in the order of the requests
    a_all,          \* all_workers
    \* ---- SpecIterate: scrape_all_jobs_iteratively of api_scraper.py
    i_pc,           \* "off" | "loop" | "done"
    i_found,        \* per company, the company slugs in the jobs of its listing
    i_max,          \* max_companies (0: None)
    i_list,         \* list(discovered_companies) the for statement iterates over
    i_k,            \* number of elements of the list the loop has been through
    i_discovered,   \* discovered_companies
    i_processed,    \* processed_companies
    i_calls,        \* the companies get_all_company_jobs was called for, in order
    i_count         \* companies_processed

mvars == <<m_pc, m_variant, m_job, m_outcome, m_out>>
cvars == <<c_pc, c_discovered, c_i, c_called, c_up, c_res, c_api_jobs, c_errors>>
pvars == <<p_pc, p_config, p_fault, p_prior, p_db, p_companies, p_ci, p_failed, p_api_jobs,
           p_input, p_pending, p_outcomes, p_detailed, p_to_store, p_stats, p_events>>
fvars == <<f_pc, f_client, f_attempt, f_call_gets, f_result, f_last,
           f_get, f_after_block, f_blocked_ua, f_consec>>
\* the variables of the specifications other than SpecMerge, SpecCollect, Spec
gvars == <<g_pc, g_i, g_companies, g_attempted, g_failed, g_result>>
wvars == <<w_pc, w_form, w_n, w_skip, w_page, w_companies, w_requests, w_starts, w_error>>
uvars == <<u_pc, u_input, u_k, u_db, u_first, u_now, u_written>>
tvars == <<t_pc, t_variant, t_field, t_value, t_handed, t_ok>>
svars == <<s_pc, s_skew, s_ts, s_api, s_detailed, s_prior, s_db, s_before, s_committed, s_stats>>
evars == <<e_pc, e_n, e_i, e_sem, e_running, e_enhanced>>
avars == <<a_pc, a_upstream, a_batch_size, a_total, a_start, a_batches, a_requested, a_all>>
ivars == <<i_pc, i_found, i_max, i_list, i_k, i_discovered, i_processed, i_calls, i_count>>
xvars == <<fvars, gvars, wvars, uvars, tvars, svars, evars, avars, ivars>>
vars  == <<mvars, cvars, pvars, xvars>>

-----------------------------------------------------------------------------
(* Python values.  Every field value is a string; three of them stand for   *)
(* a missing key, for None and for a whitespace-only string.                *)

Absent == "<absent>"
None   == "<None>"
Empty  == ""
Blank  == " "

\* bool(d.get(k)): a missing key reads as None; None and '' are falsy
Truthy(v) == v \notin {Absent, None, Empty}

\* d.get(k) and str(d.get(k)).strip()
NonBlank(v) == Truthy(v) /\ v # Blank

\* what d.get(k) returns
Get(v) == IF v = Absent THEN None ELSE v

Fields ==
    {"title", "slug", "company_name", "company_slug", "job_url",
     "description", "requirements", "category", "job_type", "apply_url",
     "experience_level", "published_date", "company_id"}

\* a dict given by the keys it holds
Dict(d) == [f \in Fields |-> IF f \in DOMAIN d THEN d[f] ELSE Absent]

Keys(d) == {f \in Fields : d[f] # Absent}

\* len(d)
DictLen(d) == Cardinality(Keys(d))

\* {**job, **detailed_data}: every key of detailed_data wins
DictMerge(job, detailed_data) ==
    [f \in Fields |-> IF detailed_data[f] # Absent THEN detailed_data[f] ELSE job[f]]

-----------------------------------------------------------------------------
(* The upstream's universe of slugs, and the detail URL built from them.    *)

CompanySlugs == {"c1", "c2"}
JobSlugs     == {"j1", "j2", "j3"}

\* f"https://jobs.glorri.az/vacancies/{company_slug}/{job_slug}"
UrlOf(c, s) ==
    CASE c = "c1" /\ s = "j1" -> "/vacancies/c1/j1"
      [] c = "c1" /\ s = "j2" -> "/vacancies/c1/j2"
      [] c = "c1" /\ s = "j3" -> "/vacancies/c1/j3"
      [] c = "c2" /\ s = "j1" -> "/vacancies/c2/j1"
      [] c = "c2" /\ s = "j2" -> "/vacancies/c2/j2"
      [] c = "c2" /\ s = "j3" -> "/vacancies/c2/j3"

\* urlparse(job_url).path.strip('/').split('/')[-1]
SlugOfUrl(u) == CHOOSE s \in JobSlugs : \E c \in CompanySlugs : UrlOf(c, s) = u

\* An entity of the upstream listing API: {title, slug, company: {slug, name}}
RawJob(t, s, c, n) == [title |-> t, slug |-> s, cslug |-> c, cname |-> n]

\* APIJobScraper.parse_job_data
parse_job_data(job) ==
    Dict(("title" :> job.title) @@ ("slug" :> job.slug) @@
         ("company_name" :> job.cname) @@ ("company_slug" :> job.cslug) @@
         ("job_url" :> IF job.cslug # Empty /\ job.slug # Empty
                       THEN UrlOf(job.cslug, job.slug) ELSE None))

-----------------------------------------------------------------------------
(* What the detail extractors can return for a page at job_url.  Each field *)
(* ranges over the values its extraction code can produce.                  *)

\* JobPageParser._extract_job_details: a field is set only when its
\* extractor returned a truthy value, except the keys copied from
\* _extract_additional_details, which are set to whatever text the page
\* holds (experience_level may be '') or to _parse_date's result (None when
\* the text is no Azerbaijani date).
ParserDetails(job_url, titles, cslugs, descs, cats, exps, pubs) ==
    { Dict(("job_url" :> job_url) @@ ("slug" :> SlugOfUrl(job_url)) @@
           ("title" :> t) @@ ("company_slug" :> c) @@
           ("company_name" :> IF c = Absent THEN Absent ELSE "Co") @@
           ("description" :> d) @@ ("category" :> g) @@
           ("experience_level" :> e) @@ ("published_date" :> p)) :
        t \in titles, c \in cslugs, d \in descs, g \in cats, e \in exps, p \in pubs }

\* JobPageScraper._extract_job_details: title is always set (falls back to
\* "Job from <slug>"); company_name is the company link's text and
\* description is _clean_text's result, either of which may be '';
\* company_slug is what follows '/companies/' in the href of the first
\* company link of the page.
ScraperDetails(job_url, titles, cnames, cslugs, descs, cats) ==
    { Dict(("job_url" :> job_url) @@ ("slug" :> SlugOfUrl(job_url)) @@
           ("title" :> t) @@ ("company_name" :> n) @@ ("company_slug" :> c) @@
           ("description" :> d) @@ ("category" :> g)) :
        t \in titles, n \in cnames, c \in cslugs, d \in descs, g \in cats }

(* What one scrape_job_page call does, as seen by its caller:               *)
(*   ok       it returned the extracted dict                                *)
(*   none     it returned None (fetch failed, retries exhausted, parse       *)
(*            failed)                                                        *)
(*   raise    the call raised                                                *)
(*   timeout  asyncio.wait_for gave up after 30 s (scraper.py only)          *)
OkOutcome(d)   == [kind |-> "ok", data |-> d]
NoneOutcome    == [kind |-> "none", data |-> Dict(<<>>)]
RaiseOutcome   == [kind |-> "raise", data |-> Dict(<<>>)]
TimeoutOutcome == [kind |-> "timeout", data |-> Dict(<<>>)]

\* scraper.py enhance_single_job (lines 159-211)
enhance_single_job_swap(job, outcome) ==
    IF ~Truthy(job["job_url"]) THEN job
    ELSE IF outcome.kind = "ok" /\ DictLen(outcome.data) > 2
         THEN DictMerge(job, outcome.data)
         ELSE job

\* main_scraper_async.py enhance_single_job (lines 125-149)
enhance_single_job_async(job, outcome) ==
    IF ~Truthy(job["job_url"]) THEN job
    ELSE IF outcome.kind = "ok" /\ DictLen(outcome.data) > 2
         THEN DictMerge(job, outcome.data)
         ELSE job

\* main_scraper.py scrape_single_job (lines 225-242)
scrape_single_job(job, outcome) ==
    IF ~Truthy(job["job_url"]) THEN job
    ELSE IF outcome.kind = "ok" /\ DictLen(outcome.data) > 0
         THEN DictMerge(job, outcome.data)
         ELSE job

Variants == {"swap", "sync", "async"}

EnhanceOne(variant, job, outcome) ==
    CASE variant = "swap"  -> enhance_single_job_swap(job, outcome)
      [] variant = "async" -> enhance_single_job_async(job, outcome)
      [] variant = "sync"  -> scrape_single_job(job, outcome)

\* The outcomes a call can have in each orchestrator, for a given set of
\* extracted dicts.
OutcomesOf(variant, details) ==
    {OkOutcome(d) : d \in details} \cup {NoneOutcome, RaiseOutcome}
        \cup (IF variant = "swap" THEN {TimeoutOutcome} ELSE {})

MIdle ==
    /\ m_pc = "idle" /\ m_variant = "swap" /\ m_job = Dict(<<>>)
    /\ m_outcome = NoneOutcome /\ m_out = Dict(<<>>)

-----------------------------------------------------------------------------
(* The paginated collector, api_scraper.py.                                 *)

\* limit = 20 of get_all_company_jobs
PageSize == 20

\* Largest number of records an upstream holds for one company.
MaxT == 45

\* data.get('totalCount', 0) when the response carries no totalCount
NoTotal == 0 - 1

(* The upstream of one company and what goes wrong while it is walked:      *)
(*   n       records it holds, numbered 1..n and served in that order       *)
(*   total   the totalCount of every response, or NoTotal                   *)
(*   fault   "none", "fetch" (RequestException or JSONDecodeError: the      *)
(*           page fetch returns None) or "malformed" (a JSON body that is   *)
(*           no object: data.get raises AttributeError)                     *)
(*   failAt  the page (1, 2, ...) at which the fault strikes                *)
Upstream(n, total, fault, failAt) ==
    [n |-> n, total |-> total, fault |-> fault, failAt |-> failAt]

NoUpstream == Upstream(0, NoTotal, "none", 0)

Min(a, b) == IF a < b THEN a ELSE b

\* ceil(a / b)
CeilDiv(a, b) == (a + b - 1) \div b

\* the 'entities' of the page at skip/limit
PageAt(up, skip, limit) ==
    [k \in 1 .. (Min(up.n, skip + limit) - Min(up.n, skip)) |-> skip + k]

\* data.get('totalCount', 0)
GetTotalCount(up) == IF up.total = NoTotal THEN 0 ELSE up.total

CollectResult(jobs, skips, raised) ==
    [jobs |-> jobs, skips |-> skips, raised |-> raised]

NoResult == CollectResult(<<>>, <<>>, FALSE)

\* "Check if we've fetched all jobs" of get_all_company_jobs (line 162)
WalkEndsIgnoringTotal(up, jobs, all_jobs, limit) == Len(jobs) < limit

WalkEnds(up, jobs, all_jobs, limit) ==
    Len(jobs) < limit \/ Len(all_jobs) >= GetTotalCount(up)

\* get_company_jobs on a fetch error (lines 140-145)
FetchErrorRaises(up, all_jobs, skips) == CollectResult(<<>>, skips, TRUE)

FetchErrorResult(up, all_jobs, skips) == CollectResult(all_jobs, skips, FALSE)

\* APIJobScraper.get_all_company_jobs with get_company_jobs inlined: the
\* while loop from the page at `skip` on, all_jobs and the skip values
\* requested so far being given.
RECURSIVE Walk(_, _, _, _)
Walk(up, skip, all_jobs, skips) ==
    LET limit == PageSize
        reqs  == Append(skips, skip)
        page  == Len(reqs)
        hit   == up.fault # "none" /\ up.failAt = page
    IN  IF hit /\ up.fault = "malformed"
        THEN CollectResult(<<>>, reqs, TRUE)
        ELSE IF hit
        THEN FetchErrorResult(up, all_jobs, reqs)
        ELSE LET jobs == PageAt(up, skip, limit)
                 all  == all_jobs \o jobs
             IN  IF jobs = <<>>
                 THEN CollectResult(all_jobs, reqs, FALSE)
                 ELSE IF WalkEnds(up, jobs, all, limit)
                 THEN CollectResult(all, reqs, FALSE)
                 ELSE Walk(up, skip + limit, all, reqs)

get_all_company_jobs(up) == Walk(up, 0, <<>>, <<>>)

-----------------------------------------------------------------------------
(* The store, database.py.  A job row holds the text columns, the parent    *)
(* reference company_id (None for NULL), created_at and updated_at (both    *)
(* default to CURRENT_TIMESTAMP on INSERT); a company row holds             *)
(* its serial id, slug and name.  Every method commits what it did or rolls *)
(* it back, so the store variable is the committed state.                   *)

\* INTERVAL '1 hour' of cleanup_old_data, in hours
GraceHours == 1

\* the serial ids of the companies table
IdOf(k) ==
    CASE k = 1 -> "id1" [] k = 2 -> "id2" [] k = 3 -> "id3" [] k = 4 -> "id4"
      [] k = 5 -> "id5" [] k = 6 -> "id6" [] OTHER -> "id7"

\* the text columns of the jobs table
StoredFields == Fields \ {"company_id", "published_date"}

\* the parameters insert_job binds: job_data.get(column)
ColsOf(job_data) == [f \in StoredFields |-> Get(job_data[f])]

\* clean_text of scraper.py _store_jobs (lines 319-326): falsy and
\* whitespace-only values become None
clean_text(text) == IF NonBlank(text) THEN text ELSE None

\* the tuple _store_jobs of scraper.py appends to job_values
CleanCols(job) == [f \in StoredFields |-> clean_text(job[f])]

JobRow(cols, company_id, updated_at) ==
    [cols |-> cols, company_id |-> company_id, created_at |-> updated_at,
     updated_at |-> updated_at]

CompanyRow(id, slug, name) == [id |-> id, slug |-> slug, name |-> name]

Store(jobs, companies, next_id) ==
    [jobs |-> jobs, companies |-> companies, next_id |-> next_id]

EmptyStore == Store({}, {}, 1)

JobSlugsIn(db) == {r.cols["slug"] : r \in db.jobs}

CompanySlugsIn(db) == {c.slug : c \in db.companies}

\* SELECT id FROM companies WHERE slug = %s
CompanyId(db, slug) ==
    IF \E c \in db.companies : c.slug = slug
    THEN (CHOOSE c \in db.companies : c.slug = slug).id
    ELSE None

\* the result of a store method: the committed store and whether it raised
DbResult(db, ok) == [db |-> db, ok |-> ok]

\* DatabaseManager.truncate_all_data; `fails` is a failure of the connection
truncate_all_data(db, fails) ==
    IF fails THEN DbResult(db, FALSE)
    ELSE DbResult(Store({}, {}, db.next_id), TRUE)

\* DatabaseManager.insert_company: a failure (of the connection, or a NULL
\* name) is rolled back and raised
insert_company(db, company_data, fails) ==
    IF fails \/ company_data.name = None THEN DbResult(db, FALSE)
    ELSE IF \E c \in db.companies : c.slug = company_data.slug
    THEN DbResult([db EXCEPT !.companies =
                      {IF c.slug = company_data.slug
                       THEN [c EXCEPT !.name = company_data.name] ELSE c : c \in @}],
                  TRUE)
    ELSE DbResult([db EXCEPT !.companies = @ \cup {CompanyRow(IdOf(db.next_id),
                                                   company_data.slug, company_data.name)},
                             !.next_id = @ + 1],
                  TRUE)

\* an UPDATE that sets company_id as well
UpdateSetsCompanyId(row, job_data, now) ==
    JobRow(ColsOf(job_data), Get(job_data["company_id"]), now)

\* The UPDATE of insert_job (lines 156-171): every column but slug and
\* company_id is set, updated_at among them; id and created_at are not.
UpdateJobRow(row, job_data, now) ==
    [JobRow(ColsOf(job_data), row.company_id, now) EXCEPT !.created_at = row.created_at]

\* an insert_job that never looks the slug up
InsertWithoutLookup(db, job_data, now, fails) ==
    IF \/ fails
       \/ job_data["slug"] = Absent \/ job_data["title"] = Absent
       \/ job_data["slug"] = None \/ job_data["title"] = None
    THEN DbResult(db, FALSE)
    ELSE DbResult([db EXCEPT !.jobs = @ \cup
                      {JobRow(ColsOf(job_data), Get(job_data["company_id"]), now)}],
                  TRUE)

\* DatabaseManager.insert_job: job_data['slug'] and job_data['title'] raise
\* KeyError when missing, title and slug are NOT NULL; every failure is
\* rolled back and reported as False.
insert_job(db, job_data, now, fails) ==
    IF \/ fails
       \/ job_data["slug"] = Absent \/ job_data["title"] = Absent
       \/ job_data["slug"] = None \/ job_data["title"] = None
    THEN DbResult(db, FALSE)
    ELSE IF \E r \in db.jobs : r.cols["slug"] = job_data["slug"]
    THEN DbResult([db EXCEPT !.jobs =
                      {IF r.cols["slug"] = job_data["slug"]
                       THEN UpdateJobRow(r, job_data, now) ELSE r : r \in @}],
                  TRUE)
    ELSE DbResult([db EXCEPT !.jobs = @ \cup
                      {JobRow(ColsOf(job_data), Get(job_data["company_id"]), now)}],
                  TRUE)

\* The jobs cleanup_old_data keeps: updated_at is not older than scrape_timestamp - 1 hour
\* (updated_at is never NULL: the column defaults to CURRENT_TIMESTAMP).
KeptByCleanup(db, scrape_timestamp) ==
    {r \in db.jobs : ~(r.updated_at < scrape_timestamp - GraceHours)}

\* DatabaseManager.cleanup_old_data with a scrape_timestamp (lines 235-260,
\* 280-287): the two DELETEs and the commit, or the rollback
cleanup_old_data(db, scrape_timestamp, fails) ==
    IF fails THEN DbResult(db, FALSE)
    ELSE LET jobs == KeptByCleanup(db, scrape_timestamp)
             refd == {r.company_id : r \in {x \in jobs : x.company_id # None}}
         IN  DbResult([db EXCEPT !.jobs = jobs,
                                 !.companies = {c \in @ : c.id \in refd}],
                      TRUE)

\* companies = {} of _store_companies: the first record of each company_slug
\* gives the company's name; in the order of first appearance
RECURSIVE CompaniesOf(_, _)
CompaniesOf(jobs, seen) ==
    IF jobs = <<>> THEN <<>>
    ELSE LET slug == jobs[1]["company_slug"]
         IN  IF Truthy(slug) /\ slug \notin seen
             THEN <<[slug |-> slug, name |-> Get(jobs[1]["company_name"])]>>
                      \o CompaniesOf(Tail(jobs), seen \cup {slug})
             ELSE CompaniesOf(Tail(jobs), seen)

-----------------------------------------------------------------------------
(* Spec: one run of an orchestrator against a store that earlier runs have  *)
(* filled.                                                                  *)

\* scrape_timestamp of the run, and the times at which earlier runs wrote:
\* Stale is older than the grace hour, Recent is not.  Rows the run writes
\* get CURRENT_TIMESTAMP, which the model takes as RunStart.
RunStart == GraceHours + 2
Stale    == RunStart - GraceHours - 1
Recent   == RunStart - GraceHours

\* The entities the upstream serves.  R4 is an entity without 'company':
\* parse_job_data gives it company_slug '' and job_url None.
R1 == RawJob("Engineer", "j1", "c1", "ABC")
R2 == RawJob("Analyst", "j2", "c1", "ABC")
R3 == RawJob("Teller", "j3", "c2", "Bank")
R4 == RawJob("Clerk", "j3", Empty, Empty)

\* What a company's endpoint can list: <<R1, R1>> is a record served on two
\* pages of one walk.
ListingsOf(company_slug) ==
    IF company_slug = "c1" THEN {<<R1>>, <<R1, R2>>, <<R1, R1>>} ELSE {<<R4>>}

\* the upstreams of a listing: served whole, or failing on its first page
ListingUpstreams(listing) ==
    {Upstream(Len(listing), Len(listing), f[1], f[2]) :
        f \in {<<"none", 0>>, <<"fetch", 1>>, <<"malformed", 1>>}}

\* the stores earlier runs of main_scraper.py can have left
PriorRow(raw, company_id, updated_at) ==
    JobRow(ColsOf(parse_job_data(raw)), company_id, updated_at)

PriorStores ==
    { EmptyStore,
      Store({PriorRow(R1, IdOf(1), Stale)}, {CompanyRow(IdOf(1), "c1", "ABC")}, 2),
      Store({PriorRow(R1, IdOf(1), Stale), PriorRow(R2, IdOf(1), Recent),
             PriorRow(R3, IdOf(2), Stale)},
            {CompanyRow(IdOf(1), "c1", "ABC"), CompanyRow(IdOf(2), "c2", "Bank")}, 3) }

\* How the run is started: the orchestrator and, for main_scraper.py, the
\* truncate_first and scrape_details arguments of scrape_jobs_full_pipeline.
Config(variant, truncate_first, scrape_details) ==
    [variant |-> variant, truncate_first |-> truncate_first,
     scrape_details |-> scrape_details]

Configs ==
    { Config("swap", FALSE, TRUE), Config("async", FALSE, TRUE),
      Config("sync", FALSE, TRUE), Config("sync", TRUE, TRUE),
      Config("sync", FALSE, FALSE) }

\* The store step during which the connection fails in this run, if any.
FaultsOf(config) ==
    {"none", "store_companies", "store_jobs"}
        \cup (IF config.variant = "swap" \/ config.truncate_first
              THEN {"truncate"} ELSE {})
        \cup (IF config.variant # "swap" THEN {"cleanup"} ELSE {})

Stats(errors, jobs_stored, jobs_removed) ==
    [errors |-> errors, jobs_stored |-> jobs_stored, jobs_removed |-> jobs_removed]

HasUrl(job) == Truthy(job["job_url"])

HasNoUrl(job) == ~Truthy(job["job_url"])

Range(s) == {s[i] : i \in DOMAIN s}

\* [parse_job_data(job) for job in company_jobs]
RECURSIVE ParseAll(_)
ParseAll(raws) ==
    IF raws = <<>> THEN <<>>
    ELSE <<parse_job_data(Head(raws))>> \o ParseAll(Tail(raws))

\* the entities a walk returned, out of the listing it walked
Served(listing, res) == [k \in DOMAIN res.jobs |-> listing[res.jobs[k]]]

\* the detail pages of the run: the page carries a title, and a description
\* or not; JobPageParser may also fail to find the title; the first company
\* link JobPageScraper finds may be that of another company
RunDetails(variant, job_url) ==
    IF variant = "swap"
    THEN ParserDetails(job_url, {"Senior Engineer"}, {Absent}, {Absent, "We build"},
                       {Absent}, {Absent}, {Absent})
         \cup ParserDetails(job_url, {Absent}, {Absent}, {Absent}, {Absent},
                            {Absent}, {Absent})
    ELSE ScraperDetails(job_url, {"Senior Engineer"}, {Absent}, {Absent, "c2"},
                        {Absent, "We build"}, {Absent})

RunOutcomes(variant, job_url) ==
    {OkOutcome(d) : d \in RunDetails(variant, job_url)} \cup {NoneOutcome}
        \cup (IF variant = "swap" THEN {TimeoutOutcome} ELSE {})

\* the fields the quality check of scraper.py looks at (lines 96-102)
EnhancedFields == {"description", "requirements", "category", "job_type", "apply_url"}

has_enhanced_data(job) == \E f \in EnhancedFields : NonBlank(job[f])

\* enhanced_count of scraper.py (lines 93-104)
EnhancedCount(jobs) == Cardinality({i \in DOMAIN jobs : has_enhanced_data(jobs[i])})

\* the loop over companies.values() of _store_companies_from_jobs and of
\* main_scraper_async.py _store_companies: insert_company's exception is
\* logged and the loop goes on
RECURSIVE StoreCompanyLoop(_, _, _)
StoreCompanyLoop(db, companies, fails) ==
    IF companies = <<>> THEN db
    ELSE StoreCompanyLoop(insert_company(db, Head(companies), fails).db,
                          Tail(companies), fails)

\* scraper.py _store_companies: one bulk upsert, committed or rolled back
bulk_store_companies(db, jobs, fails) ==
    LET companies == CompaniesOf(jobs, {})
    IN  IF companies = <<>> THEN DbResult(db, TRUE)
        ELSE IF fails THEN DbResult(db, FALSE)
        ELSE DbResult(StoreCompanyLoop(db, companies, FALSE), TRUE)

\* company_id as the job writers look it up
LookupCompanyId(db, job) ==
    IF Truthy(job["company_slug"]) THEN CompanyId(db, job["company_slug"]) ELSE None

\* scraper.py _store_jobs: one bulk upsert of the cleaned tuples.  It fails
\* as a whole when the connection fails, when a cleaned title or slug is
\* NULL, or when one statement proposes a slug twice; then it is rolled back
\* and 0 is returned.
bulk_store_jobs(db, jobs, now, fails) ==
    LET vals == [i \in DOMAIN jobs |->
                    JobRow(CleanCols(jobs[i]), LookupCompanyId(db, jobs[i]), now)]
        bad  == \/ fails
                \/ \E i \in DOMAIN vals : \/ vals[i].cols["title"] = None
                                          \/ vals[i].cols["slug"] = None
                \/ \E i, j \in DOMAIN vals :
                       i # j /\ vals[i].cols["slug"] = vals[j].cols["slug"]
        new  == {r.cols["slug"] : r \in Range(vals)}
        upd(r) == IF \E o \in db.jobs : o.cols["slug"] = r.cols["slug"]
                  THEN LET old == CHOOSE o \in db.jobs : o.cols["slug"] = r.cols["slug"]
                       IN  [r EXCEPT !.company_id = old.company_id,
                                     !.created_at = old.created_at]
                  ELSE r
    IN  IF jobs = <<>> THEN [db |-> db, stored |-> 0]
        ELSE IF bad THEN [db |-> db, stored |-> 0]
        ELSE [db |-> [db EXCEPT !.jobs = {o \in @ : o.cols["slug"] \notin new}
                                             \cup {upd(r) : r \in Range(vals)}],
              stored |-> Len(jobs)]

\* a loop that a failed write ends
RECURSIVE StopAtFirstError(_, _, _, _, _)
StopAtFirstError(db, jobs, now, variant, fails) ==
    IF jobs = <<>> THEN [db |-> db, stored |-> 0]
    ELSE LET job    == Head(jobs)
             lookup == /\ Truthy(job["company_slug"])
                       /\ (variant = "async" \/ ~Truthy(job["company_id"]))
                       /\ CompanyId(db, job["company_slug"]) # None
             job2   == IF lookup
                       THEN [job EXCEPT !["company_id"] = CompanyId(db, job["company_slug"])]
                       ELSE job
             res    == insert_job(db, job2, now, fails)
             rest   == StopAtFirstError(res.db, Tail(jobs), now, variant, fails)
         IN  IF res.ok THEN [db |-> rest.db, stored |-> rest.stored + 1]
             ELSE [db |-> db, stored |-> 0]

\* _store_jobs_in_database of main_scraper.py and _store_jobs of
\* main_scraper_async.py: per record, look the company up and insert_job;
\* main_scraper.py looks it up only when the record has no company_id yet.
RECURSIVE StoreJobLoop(_, _, _, _, _)
StoreJobLoop(db, jobs, now, variant, fails) ==
    IF jobs = <<>> THEN [db |-> db, stored |-> 0]
    ELSE LET job    == Head(jobs)
             lookup == /\ Truthy(job["company_slug"])
                       /\ (variant = "async" \/ ~Truthy(job["company_id"]))
                       /\ CompanyId(db, job["company_slug"]) # None
             job2   == IF lookup
                       THEN [job EXCEPT !["company_id"] = CompanyId(db, job["company_slug"])]
                       ELSE job
             res    == insert_job(db, job2, now, fails)
             rest   == StoreJobLoop(res.db, Tail(jobs), now, variant, fails)
         IN  [db |-> rest.db, stored |-> rest.stored + (IF res.ok THEN 1 ELSE 0)]

-----------------------------------------------------------------------------
(* The fetch client, page_parser.py JobPageParser.                          *)

\* max_retries of scrape_job_page
MaxRetries == 3

\* failed_requests >= 2 renews the session
FailLimit == 2

\* requests_since_renewal >= 50 renews the session
RenewAfter == 50

\* len(self.user_agents)
NumAgents == 5

(* The client's fields.  ua is the index in user_agents of the session's    *)
(* user-agent, idx is current_user_agent_index, gets counts the GETs sent   *)
(* on the session since it was created.                                     *)
Client(idx, ua, failed, rsr, gets) ==
    [idx |-> idx, ua |-> ua, failed |-> failed, rsr |-> rsr, gets |-> gets]

\* JobPageParser._create_new_session
create_new_session(c) ==
    Client((c.idx + 1) % NumAgents, c.idx, 0, 0, 0)

\* JobPageParser.__init__: index 0, then the first session
NewClient == create_new_session(Client(0, 0, 0, 0, 0))

\* the renewal check at the head of scrape_job_page (lines 74-76)
RenewIfDue(c) ==
    IF c.failed >= FailLimit \/ c.rsr >= RenewAfter THEN create_new_session(c) ELSE c

(* What one GET of scrape_job_page meets:                                   *)
(*   ok           status 200 and a page that parses                         *)
(*   parse_error  status 200, an exception while parsing                    *)
(*   429          status 429                                                *)
(*   block        status 403, 404, 502 or 503                               *)
(*   http_error   another 4xx/5xx status: raise_for_status raises HTTPError *)
(*   network      ConnectionError or Timeout                                *)
(*   exc429       a RequestException whose message contains "429"           *)
Responses == {"ok", "parse_error", "429", "block", "http_error", "network", "exc429"}

\* what the attempt ends in: the loop continues, or the call returns
Continue(c)  == [client |-> c, next |-> "continue", result |-> "none"]
Return(c, r) == [client |-> c, next |-> "return", result |-> r]

CountFailure(c) == [c EXCEPT !.failed = @ + 1]

\* a block response that leaves the session as it is
KeepSessionOnBlock(c) == c

\* self._renew_session() of the 429 and 403/404/502/503 branches
RenewOnBlock(c) == create_new_session(c)

\* the RequestException branch, lines 134-143
OnRequestException(c, attempt, has429) ==
    IF attempt < MaxRetries - 1 /\ has429
    THEN Continue(c)
    ELSE Return(CountFailure(c), "None")

\* The body of the retry loop after session.get returned or raised (lines
\* 91-147), c being the client after requests_since_renewal += 1.
Respond(c, attempt, resp) ==
    CASE resp = "429" ->
             IF attempt < MaxRetries - 1 THEN Continue(RenewOnBlock(c))
             ELSE Return(RenewOnBlock(c), "None")
      [] resp = "block" ->
             IF attempt < MaxRetries - 1 THEN Continue(RenewOnBlock(c))
             ELSE OnRequestException(RenewOnBlock(c), attempt, FALSE)
      [] resp = "http_error" -> OnRequestException(c, attempt, FALSE)
      [] resp = "network"    -> OnRequestException(c, attempt, FALSE)
      [] resp = "exc429"     -> OnRequestException(c, attempt, TRUE)
      [] resp = "parse_error" -> Return(CountFailure(c), "None")
      [] resp = "ok"         -> Return([c EXCEPT !.failed = 0], "data")

\* the record of a GET: the session it went out on and what preceded it
Get0 == [ua |-> 0, gets_before |-> 0, after_block |-> FALSE, blocked_ua |-> 0,
         after_failed_calls |-> 0]

FIdle ==
    /\ f_pc = "off" /\ f_client = NewClient /\ f_attempt = 0 /\ f_call_gets = 0
    /\ f_result = "none" /\ f_last = "none" /\ f_get = Get0
    /\ f_after_block = FALSE /\ f_blocked_ua = 0 /\ f_consec = 0

-----------------------------------------------------------------------------
(* Discovery, api_scraper.py APIJobScraper.get_all_companies.               *)

\* len(search_queries)
NumQueries == 5

\* len([0, 20, 40, 60, 80])
NumOffsets == 5

\* APIJobScraper.get_known_companies
KnownCompanies ==
    << "abc-telecom", "kapital-bank", "pasha-bank", "access-bank", "baku-electronics",
       "Gilan-holdinq", "rabitabank", "express-bank", "azersu", "azercell", "bakcell",
       "nar", "socar", "azerishiq", "aztelecom", "pmu", "azpost", "stp", "azermash",
       "azerenerji", "azerturk-bank", "yelo-bank", "xalq-bank", "gunay-bank", "amrahbank",
       "turanbank", "muganbank", "ziraat-bank-azerbaijan", "abb-bank", "pasha-life",
       "pasha-insurance", "ateshgah-insurance" >>

(* What a get_general_jobs / search_jobs request, with the extraction of    *)
(* the slugs that follows it, comes to:                                     *)
(*   page    a body with 'entities'; slugs are the company slugs on it      *)
(*   none    RequestException (HTTP error status, network failure): the     *)
(*           request function returns None                                  *)
(*   raise   a body that is no JSON object, or an entity whose 'company'    *)
(*           is null: AttributeError, which the request function and        *)
(*           discover_companies_from_jobs do not catch                      *)
PageOutcome(slugs) == [kind |-> "page", slugs |-> slugs]
NoneResponse       == [kind |-> "none", slugs |-> {}]
RaiseResponse      == [kind |-> "raise", slugs |-> {}]

RequestOutcomes ==
    {PageOutcome(s) : s \in SUBSET CompanySlugs} \cup {NoneResponse, RaiseResponse}

\* the lists list(companies) can be: a set has no order of its own
Orderings(S) ==
    {seq \in [1 .. Cardinality(S) -> S] : \A i, j \in DOMAIN seq : i # j => seq[i] # seq[j]}

\* a fallback taken whatever was discovered
FallbackAlways(companies) == TRUE

\* if not companies_list (line 74)
FallbackNeeded(companies) == companies = {}

\* the requests of get_all_companies
GeneralRequest(q) == <<"general", q>>
SearchRequest(q)  == <<"search", q>>
OffsetRequest(k)  == <<"offset", k>>

AllDiscoveryRequests ==
    {GeneralRequest(q) : q \in 1 .. NumQueries}
        \cup {SearchRequest(q) : q \in 1 .. NumQueries}
        \cup {OffsetRequest(k) : k \in 1 .. NumOffsets}

GIdle ==
    /\ g_pc = "off" /\ g_i = 0 /\ g_companies = {} /\ g_attempted = {}
    /\ g_failed = 0 /\ g_result = <<>>

-----------------------------------------------------------------------------
(* Discovery, discover_all_companies.py CompanyDiscovery: the request that  *)
(* first succeeds and _scrape_all_pages.                                    *)

\* base_params.get('limit', 20)
DefaultLimit == 20

\* the longest listing of the exhaustive range, and listings of several
\* pages of 100
MaxListing == 45
ListingSizes == (0 .. MaxListing) \cup {100, 101, 2 * 100 + DefaultLimit}

\* requests _scrape_all_pages is followed through
MaxWalk == 12

\* a dict of query parameters: the keys it has and their values
Params(keys, skip, limit, page, size, offset) ==
    [keys |-> keys, skip |-> skip, limit |-> limit, page |-> page, size |-> size,
     offset |-> offset]

\* param_combinations, lines 63-69
param_combinations ==
    << Params({"skip", "limit"}, 0, DefaultLimit, 0, 0, 0),
       Params({"skip", "limit"}, 0, 100, 0, 0, 0),
       Params({"page", "size"}, 0, 0, 0, DefaultLimit, 0),
       Params({"offset", "limit"}, 0, DefaultLimit, 0, 0, 0),
       Params({}, 0, 0, 0, 0, 0) >>

\* the form an upstream honours, by the position in param_combinations of
\* the first request it answers
FormOf(k) == <<"skip/limit", "skip/limit", "page/size", "offset/limit", "none">>[k]

\* the first record of the page an upstream of that form serves (counted
\* from 0) and the length it cuts the page to; parameters that are not of
\* its form are ignored, and without parameters the whole listing is served
PageStart(form, params) ==
    CASE form = "skip/limit"   -> params.skip
      [] form = "page/size"    -> params.page * params.size
      [] form = "offset/limit" -> params.offset
      [] form = "none"         -> 0

PageLength(form, params, n) ==
    CASE form = "skip/limit"   -> params.limit
      [] form = "page/size"    -> params.size
      [] form = "offset/limit" -> params.limit
      [] form = "none"         -> n

\* data['entities']: the records served, each one of a company of its own
Entities(form, params, n) ==
    {k \in 1 .. n : /\ k > PageStart(form, params)
                    /\ k <= PageStart(form, params) + PageLength(form, params, n)}

\* lines 132-133
StartSkip(base_params) == IF "skip" \in base_params.keys THEN base_params.skip ELSE 0
LimitOf(base_params) == IF "limit" \in base_params.keys THEN base_params.limit ELSE DefaultLimit

\* lines 139-144: the parameters of the next request
PageParams(base_params, skip, page) ==
    CASE "skip" \in base_params.keys -> [base_params EXCEPT !.skip = skip]
      [] "page" \in base_params.keys -> [base_params EXCEPT !.page = page]
      [] OTHER -> [base_params EXCEPT !.keys = @ \cup {"skip", "limit"},
                                      !.skip = skip,
                                      !.limit = LimitOf(base_params)]

WIdle ==
    /\ w_pc = "off" /\ w_form = 0 /\ w_n = 0 /\ w_skip = 0 /\ w_page = 0
    /\ w_companies = {} /\ w_requests = 0 /\ w_starts = <<>> /\ w_error = FALSE

-----------------------------------------------------------------------------
(* The writes of the store taken by themselves: insert_company, insert_job  *)
(* and the bulk upsert of scraper.py, called in any order.                  *)

\* calls of one reconciliation
MaxCalls == 3

JobData(title, slug, company_slug, company_id) ==
    Dict(("title" :> title) @@ ("slug" :> slug) @@ ("company_slug" :> company_slug) @@
         ("company_id" :> company_id))

\* j1 as two runs can see it, j1 without a title, and j2, whose company is
\* left to be looked up
J1a == JobData("Engineer", "j1", "c1", IdOf(1))
J1b == JobData("Senior Engineer", "j1", "c2", IdOf(2))
J1n == JobData(None, "j1", "c1", IdOf(1))
J2  == JobData("Analyst", "j2", "c1", Absent)

NoCompany == [slug |-> Empty, name |-> Empty]

WriteCall(op, jobs, company) == [op |-> op, jobs |-> jobs, company |-> company]

WriteCalls ==
    {WriteCall("insert_job", <<j>>, NoCompany) : j \in {J1a, J1b, J1n, J2}}
        \cup {WriteCall("insert_company", <<>>, c) :
                 c \in {[slug |-> "c1", name |-> "ABC"], [slug |-> "c1", name |-> "ABC LLC"],
                        [slug |-> "c2", name |-> "Bank"]}}
        \cup {WriteCall("_store_jobs", js, NoCompany) :
                 js \in {<<J1a>>, <<J1b, J2>>, <<J1a, J1b>>}}

Inputs == UNION {[1 .. n -> WriteCalls] : n \in 1 .. MaxCalls}

\* the store after the call, and the rows the call supplied when it succeeded
Written(db, rows) == [db |-> db, rows |-> rows]

Write(db, call, now) ==
    CASE call.op = "insert_job" ->
             LET res == insert_job(db, call.jobs[1], now, FALSE)
             IN  Written(res.db,
                         IF res.ok
                         THEN {JobRow(ColsOf(call.jobs[1]), Get(call.jobs[1]["company_id"]), now)}
                         ELSE {})
      [] call.op = "insert_company" ->
             Written(insert_company(db, call.company, FALSE).db, {})
      [] call.op = "_store_jobs" ->
             LET res == bulk_store_jobs(db, call.jobs, now, FALSE)
             IN  Written(res.db,
                         IF res.stored > 0
                         THEN {JobRow(CleanCols(call.jobs[i]),
                                      LookupCompanyId(db, call.jobs[i]), now) :
                                  i \in DOMAIN call.jobs}
                         ELSE {})

UIdle ==
    /\ u_pc = "off" /\ u_input = <<>> /\ u_k = 0 /\ u_db = EmptyStore
    /\ u_first = EmptyStore /\ u_now = 0 /\ u_written = {}

-----------------------------------------------------------------------------
(* Text values character by character: what the writers do to a value       *)
(* before binding it, and what the store takes.                             *)

NUL == "\\0"

\* a text, or None
Text(chars) == [none |-> FALSE, chars |-> chars]
NoText      == [none |-> TRUE, chars |-> <<>>]

Chars(c, n) == [i \in 1 .. n |-> c]

\* the columns of the jobs table that hold text
TextColumns ==
    {"title", "slug", "company_name", "company_slug", "location", "job_type",
     "experience_level", "description", "requirements", "category", "job_url",
     "apply_url"}

Unbounded == 0

\* VARCHAR(n) of the jobs table (database.py lines 62-77); TEXT columns are
\* Unbounded
ColumnBound(field) ==
    CASE field \in {"title", "slug"} -> 500
      [] field \in {"company_name", "company_slug", "location", "category"} -> 255
      [] field \in {"job_type", "experience_level"} -> 100
      [] field \in {"job_url", "apply_url"} -> 1000
      [] OTHER -> Unbounded

\* the values a record's field is given: short, with a null byte, padded
\* with spaces, and one character or a space beyond each column bound
Texts ==
    { Text(<<"a", "b">>), Text(<<"a", NUL, "b">>), Text(<<" ", "a", " ">>),
      Text(Chars("a", 100) \o <<" ">>), Text(Chars("a", 101)), Text(Chars("a", 256)),
      Text(Chars("a", 600)), Text(Chars("a", 1001)) }

\* str.strip()
RECURSIVE LStrip(_)
LStrip(chars) ==
    IF chars # <<>> /\ Head(chars) = " " THEN LStrip(Tail(chars)) ELSE chars

RECURSIVE RStrip(_)
RStrip(chars) ==
    IF chars # <<>> /\ chars[Len(chars)] = " "
    THEN RStrip(SubSeq(chars, 1, Len(chars) - 1)) ELSE chars

NotNul(c) == c # NUL

\* clean_text(text, max_length) of scraper.py _store_jobs, lines 319-326
clean_text_bounded(text, max_length) ==
    IF text.none \/ text.chars = <<>> THEN NoText
    ELSE LET cleaned == RStrip(LStrip(SelectSeq(text.chars, NotNul)))
             cut     == IF max_length # Unbounded /\ Len(cleaned) > max_length
                        THEN SubSeq(cleaned, 1, max_length) ELSE cleaned
         IN  IF cut = <<>> THEN NoText ELSE Text(cut)

\* What each writer binds for a column: scraper.py cleans every text with
\* the column's bound, description and requirements without one (lines
\* 328-346); main_scraper_async.py cuts job_type and experience_level to 100
\* (lines 213-216); main_scraper.py binds the value as it is.
Handed(variant, field, text) ==
    CASE variant = "swap" -> clean_text_bounded(text, ColumnBound(field))
      [] variant = "async" /\ field \in {"job_type", "experience_level"}
                           /\ ~text.none /\ Len(text.chars) > 100 ->
             Text(SubSeq(text.chars, 1, 100))
      [] OTHER -> text

\* What the store takes: psycopg2 refuses a string with a null byte; a
\* value longer than VARCHAR(n) is an error unless the excess is spaces;
\* title and slug are NOT NULL.
StoreTakes(field, text) ==
    IF text.none THEN field \notin {"title", "slug"}
    ELSE /\ \A i \in DOMAIN text.chars : text.chars[i] # NUL
         /\ \/ ColumnBound(field) = Unbounded
            \/ \A i \in DOMAIN text.chars : i > ColumnBound(field) => text.chars[i] = " "

TIdle ==
    /\ t_pc = "off" /\ t_variant = "swap" /\ t_field = "title" /\ t_value = NoText
    /\ t_handed = NoText /\ t_ok = FALSE

-----------------------------------------------------------------------------
(* The time-window sweep: mark_scraping_start reads the orchestrator's      *)
(* clock (datetime.now()), updated_at is the store's CURRENT_TIMESTAMP.     *)

\* how far the two clocks can be apart, in hours: not at all, or by more
\* than the grace hour either way
Skews == {0, GraceHours + 1, 0 - (GraceHours + 1)}

\* the record as enrichment can relink it: the page's company link names
\* the other company
Relinked(job) ==
    [job EXCEPT !["company_slug"] = IF @ = "c1" THEN "c2" ELSE "c1"]

\* an entity without 'title', and one whose company has a null 'name': the
\* job write of the first and the company write of the second violate NOT
\* NULL
R5 == RawJob(None, "j3", "c1", "ABC")
R6 == RawJob("Teller", "j3", "c2", None)

SweepApiJobs == {ParseAll(l) : l \in {<<R1>>, <<R1, R2>>, <<R3>>, <<R5, R1>>, <<R6, R1>>}}

DetailedOf(api_jobs) ==
    {d \in [DOMAIN api_jobs -> Range(api_jobs) \cup {Relinked(j) : j \in Range(api_jobs)}] :
        \A i \in DOMAIN api_jobs : d[i] \in {api_jobs[i], Relinked(api_jobs[i])}}

\* a store left by a run whose company write failed: j1 was inserted
\* without a parent reference
OrphanStore == Store({PriorRow(R1, None, Stale)}, {}, 2)

CleanupStats(jobs_removed, companies_removed) ==
    [jobs_removed |-> jobs_removed, companies_removed |-> companies_removed]

\* cleanup_stats as cleanup_old_data returns it: the rowcounts of the two
\* DELETEs when it commits; when it fails, the rowcounts of the statements
\* that had run before the failure, the rollback undoing them
CleanupReturns(db, res) ==
    LET jobs      == Cardinality(db.jobs) - Cardinality(KeptByCleanup(db, res.ts))
        companies == Cardinality(db.companies)
                         - Cardinality(cleanup_old_data(db, res.ts, FALSE).db.companies)
    IN  IF res.ok THEN {CleanupStats(jobs, companies)}
        ELSE {CleanupStats(0, 0), CleanupStats(jobs, 0), CleanupStats(jobs, companies)}

SIdle ==
    /\ s_pc = "off" /\ s_skew = 0 /\ s_ts = 0 /\ s_api = <<>> /\ s_detailed = <<>>
    /\ s_prior = EmptyStore /\ s_db = EmptyStore /\ s_before = EmptyStore
    /\ s_committed = FALSE
    /\ s_stats = CleanupStats(0, 0)

-----------------------------------------------------------------------------
(* _enhance_jobs_with_details of scraper.py: the loop awaits one            *)
(* enhance_single_job at a time; each hands scrape_job_page to a thread of  *)
(* the default executor and waits for it under asyncio.wait_for.            *)

\* records with a URL handed to the step
MaxJobs == 3

\* what the awaited call comes to when the thread returns or raises in time
ThreadOutcomes == {"data", "none", "raise"}

EIdle ==
    /\ e_pc = "off" /\ e_n = 0 /\ e_i = 0 /\ e_sem = 1
    /\ e_running = {} /\ e_enhanced = <<>>

-----------------------------------------------------------------------------
(* get_all_workers of work_az_client.py.                                    *)

\* totalPages the API reports
MaxTotalPages == 4

\* batch_size the caller passes
MaxBatch == 3

AIdle ==
    /\ a_pc = "off" /\ a_upstream = <<>> /\ a_batch_size = 0 /\ a_total = 0
    /\ a_start = 0 /\ a_batches = <<>> /\ a_requested = <<>> /\ a_all = <<>>

-----------------------------------------------------------------------------
(* scrape_all_jobs_iteratively of api_scraper.py.                           *)

\* the company slugs the API knows
IterCompanies == {"c1", "c2", "c3"}

\* largest max_companies passed
MaxLimit == 2

IIdle ==
    /\ i_pc = "off" /\ i_found = <<>> /\ i_max = 0 /\ i_list = <<>> /\ i_k = 0
    /\ i_discovered = {} /\ i_processed = {} /\ i_calls = <<>> /\ i_count = 0

\* the specifications other than SpecMerge, SpecCollect and Spec are off
XIdle == FIdle /\ GIdle /\ WIdle /\ UIdle /\ TIdle /\ SIdle /\ EIdle /\ AIdle /\ IIdle

PIdle ==
    /\ p_pc = "idle" /\ p_config = Config("swap", FALSE, TRUE) /\ p_fault = "none"
    /\ p_prior = EmptyStore /\ p_db = EmptyStore
    /\ p_companies = <<>> /\ p_ci = 0 /\ p_failed = {}
    /\ p_api_jobs = <<>> /\ p_input = <<>> /\ p_pending = {} /\ p_outcomes = <<>>
    /\ p_detailed = <<>> /\ p_to_store = <<>>
    /\ p_stats = Stats(0, 0, 0) /\ p_events = <<>>

-----------------------------------------------------------------------------
(* SpecCollect: Phase 2 of scrape_jobs_full_pipeline, the loop over the     *)
(* discovered companies (main_scraper.py lines 96-126), each company with   *)
(* an upstream of its own.                                                   *)

\* pages an upstream of MaxT records has
MaxPages == CeilDiv(MaxT, PageSize)

Upstreams ==
    UNION { { Upstream(n, t, "none", 0) : t \in {NoTotal, n} } \cup
            { Upstream(n, t, f, k) :
                t \in {NoTotal, n}, f \in {"fetch", "malformed"},
                k \in 1 .. MaxPages } : n \in 0 .. MaxT }

\* discovered_companies: get_all_companies returns a list without
\* duplicates, here of one or of two companies
DiscoveredLists == { <<"c1">>, <<"c2", "c1">> }

CollectInit ==
    /\ c_pc = "loop"
    /\ c_discovered \in DiscoveredLists
    /\ c_i = 0
    /\ c_called = <<>>
    /\ c_up = NoUpstream
    /\ c_res = NoResult
    /\ c_api_jobs = <<>>
    /\ c_errors = 0
    /\ MIdle /\ PIdle /\ XIdle

\* The part of the loop body that follows the get_all_company_jobs call.
LoopAbortsOnError(company_slug, res) ==
    /\ c_api_jobs' = IF res.raised THEN c_api_jobs
                     ELSE c_api_jobs \o [k \in 1 .. Len(res.jobs) |-> <<company_slug, res.jobs[k]>>]
    /\ c_errors' = IF res.raised THEN c_errors + 1 ELSE c_errors
    /\ c_i' = IF res.raised THEN Len(c_discovered) ELSE c_i + 1

LoopBody(company_slug, res) ==
    /\ c_api_jobs' = IF res.raised THEN c_api_jobs
                     ELSE c_api_jobs \o [k \in 1 .. Len(res.jobs) |-> <<company_slug, res.jobs[k]>>]
    /\ c_errors' = IF res.raised THEN c_errors + 1 ELSE c_errors
    /\ c_i' = c_i + 1

\* One iteration of the loop.
ScrapeCompany ==
    /\ c_pc = "loop"
    /\ c_i < Len(c_discovered)
    /\ \E up \in Upstreams :
          LET res == get_all_company_jobs(up)
          IN  /\ c_up' = up
              /\ c_res' = res
              /\ c_called' = Append(c_called, c_discovered[c_i + 1])
              /\ LoopBody(c_discovered[c_i + 1], res)
    /\ UNCHANGED <<c_pc, c_discovered, mvars, pvars, xvars>>

\* The loop is through.
CollectDone ==
    /\ c_pc = "loop"
    /\ c_i >= Len(c_discovered)
    /\ c_pc' = "done"
    /\ UNCHANGED <<c_discovered, c_i, c_called, c_up, c_res, c_api_jobs, c_errors, mvars, pvars, xvars>>

CollectNext == ScrapeCompany \/ CollectDone

SpecCollect == CollectInit /\ [][CollectNext]_vars

\* a call has been made and its result is in c_res
Called == c_i > 0

\* C8: with totalCount = T on every page and no fault, the walk issues
\* ceil(T/20) requests (one when T = 0) at skip 0, 20, 40, ... and returns the
\* T records in order.
C8_PageRequests ==
    (Called /\ c_up.total = c_up.n /\ c_up.fault = "none") =>
        /\ ~c_res.raised
        /\ Len(c_res.skips) = (IF c_up.n = 0 THEN 1 ELSE CeilDiv(c_up.n, PageSize))
        /\ \A k \in 1 .. Len(c_res.skips) : c_res.skips[k] = (k - 1) * PageSize
        /\ c_res.jobs = [k \in 1 .. c_up.n |-> k]

C8_Witness ==
    /\ Called /\ c_up.total = c_up.n /\ c_up.fault = "none" /\ c_up.n = 45
    /\ c_res.skips = <<0, 20, 40>> /\ Len(c_res.jobs) = 45

\* C9: when no page fetch fails the walk returns every record the upstream
\* holds, whether or not the responses carry a totalCount.
C9_WalkToCompletion ==
    (Called /\ c_up.fault = "none") => c_res.jobs = [k \in 1 .. c_up.n |-> k]

\* the fault of the last call struck: a request for page failAt was made
FaultHit == Called /\ c_up.fault # "none" /\ Len(c_res.skips) >= c_up.failAt

\* C10: a fetch error at page k ends the walk of that company with the
\* records of pages 1..k-1 and without an exception, and the loop goes
\* through every discovered company.
C10_FetchErrorKeepsPartial ==
    /\ (FaultHit /\ c_up.fault = "fetch") =>
          /\ ~c_res.raised
          /\ c_res.jobs = [k \in 1 .. (c_up.failAt - 1) * PageSize |-> k]
          /\ Len(c_res.skips) = c_up.failAt
    /\ c_pc = "done" => c_called = c_discovered

C10_Witness ==
    /\ c_pc = "done" /\ c_called = <<"c2", "c1">>
    /\ FaultHit /\ c_up.fault = "fetch" /\ c_up.failAt = 3 /\ Len(c_res.jobs) = 40

-----------------------------------------------------------------------------
(* SpecMerge: one enrichment call on one base record.                       *)

MergeBaseJobs ==
    { parse_job_data(RawJob(t, "j1", c, n)) :
        t \in {Empty, "Engineer"}, c \in {Empty, "c1"}, n \in {Empty, "ABC"} }

\* scraper.py calls JobPageParser; main_scraper.py and main_scraper_async.py
\* call JobPageScraper.
MergeDetails(variant, job_url) ==
    IF variant \in {"sync", "async"}
    THEN ScraperDetails(job_url, {"Senior Engineer"}, {Absent, Empty, "ABC LLC"}, {Absent},
                        {Absent, Empty, "We build"}, {Absent, "IT"})
    ELSE ParserDetails(job_url, {Absent, "Senior Engineer"}, {Absent, "c2"},
                       {Absent, "We build"}, {Absent, "IT"},
                       {Absent, Empty, "3 il"}, {Absent, None, "2025-08-21"})

CIdle ==
    /\ c_pc = "idle" /\ c_discovered = <<>> /\ c_i = 0 /\ c_called = <<>>
    /\ c_up = NoUpstream
    /\ c_res = NoResult /\ c_api_jobs = <<>> /\ c_errors = 0

MergeInit ==
    /\ m_pc = "call"
    /\ m_variant \in Variants
    /\ m_job \in MergeBaseJobs
    /\ m_outcome = NoneOutcome
    /\ m_out = Dict(<<>>)
    /\ CIdle /\ PIdle /\ XIdle

\* The call: scrape_job_page does one of the things it can do, and the
\* merge function returns.
MergeCall ==
    /\ m_pc = "call"
    /\ \E o \in OutcomesOf(m_variant,
                  IF Truthy(m_job["job_url"])
                  THEN MergeDetails(m_variant, m_job["job_url"]) ELSE {}) :
          /\ m_outcome' = o
          /\ m_out' = EnhanceOne(m_variant, m_job, o)
    /\ m_pc' = "done"
    /\ UNCHANGED <<m_variant, m_job, cvars, pvars, xvars>>

MergeNext == MergeCall

SpecMerge == MergeInit /\ [][MergeNext]_vars

\* C5: the merged record holds, for every field, the enriched value when it
\* is present and non-empty and the base record's value otherwise.
C5_MergeNonDestructive ==
    (m_pc = "done" /\ m_outcome.kind = "ok") =>
        \A f \in Fields :
            Get(m_out[f]) = IF Truthy(m_outcome.data[f])
                            THEN m_outcome.data[f] ELSE Get(m_job[f])

-----------------------------------------------------------------------------
(* Spec: the run, step by step.                                             *)

Init ==
    /\ MIdle /\ CIdle /\ XIdle
    /\ p_config \in Configs
    /\ p_fault \in FaultsOf(p_config)
    /\ p_prior \in PriorStores
    /\ p_db = p_prior
    /\ p_pc = IF p_config.variant = "sync" THEN "start" ELSE "discover"
    /\ p_companies = <<>> /\ p_ci = 0 /\ p_failed = {}
    /\ p_api_jobs = <<>> /\ p_input = <<>> /\ p_pending = {} /\ p_outcomes = <<>>
    /\ p_detailed = <<>> /\ p_to_store = <<>>
    /\ p_stats = Stats(0, 0, 0) /\ p_events = <<>>

\* an exception of the run that nothing catches
FatalPropagates ==
    /\ p_pc' = "raised"
    /\ UNCHANGED p_stats

\* the except clause around the whole run: stats['errors'] += 1; return stats
Fatal ==
    /\ p_pc' = "done"
    /\ p_stats' = [p_stats EXCEPT !.errors = @ + 1]

\* main_scraper.py lines 71-75: mark_scraping_start, then truncate_first
SyncStart ==
    /\ p_pc = "start"
    /\ IF p_config.truncate_first
       THEN LET res == truncate_all_data(p_db, p_fault = "truncate")
            IN  IF res.ok
                THEN /\ p_db' = res.db
                     /\ p_events' = Append(p_events, "truncate")
                     /\ p_pc' = "discover"
                     /\ UNCHANGED p_stats
                ELSE /\ Fatal
                     /\ UNCHANGED <<p_db, p_events>>
       ELSE /\ p_pc' = "discover"
            /\ UNCHANGED <<p_db, p_events, p_stats>>
    /\ UNCHANGED <<p_config, p_fault, p_prior, p_companies, p_ci, p_failed, p_api_jobs,
                   p_input, p_pending, p_outcomes, p_detailed, p_to_store, mvars, cvars, xvars>>

\* get_all_companies never returns an empty list: it falls back to the
\* known companies
SyncDiscovered == { <<"c1">>, <<"c1", "c2">> }

\* main_scraper.py lines 77-90
SyncDiscover ==
    /\ p_pc = "discover" /\ p_config.variant = "sync"
    /\ p_companies' \in SyncDiscovered
    /\ p_pc' = "collect"
    /\ UNCHANGED <<p_config, p_fault, p_prior, p_db, p_ci, p_failed, p_api_jobs, p_input,
                   p_pending, p_outcomes, p_detailed, p_to_store, p_stats, p_events,
                   mvars, cvars, xvars>>

\* main_scraper.py lines 96-126: one pass of the loop over the companies
SyncCollectCompany ==
    /\ p_pc = "collect" /\ p_ci < Len(p_companies)
    /\ \E listing \in ListingsOf(p_companies[p_ci + 1]) :
       \E up \in ListingUpstreams(listing) :
          LET res == get_all_company_jobs(up)
          IN  /\ p_api_jobs' = IF res.raised THEN p_api_jobs
                               ELSE p_api_jobs \o ParseAll(Served(listing, res))
              /\ p_stats' = IF res.raised THEN [p_stats EXCEPT !.errors = @ + 1]
                            ELSE p_stats
              /\ p_failed' = IF up.fault = "none" THEN p_failed
                             ELSE p_failed \cup {p_companies[p_ci + 1]}
    /\ p_ci' = p_ci + 1
    /\ UNCHANGED <<p_pc, p_config, p_fault, p_prior, p_db, p_companies, p_input, p_pending,
                   p_outcomes, p_detailed, p_to_store, p_events, mvars, cvars, xvars>>

\* main_scraper.py lines 128-132: no jobs found ends the run
SyncCollected ==
    /\ p_pc = "collect" /\ p_ci = Len(p_companies)
    /\ IF p_api_jobs = <<>>
       THEN p_pc' = "done" /\ p_events' = Append(p_events, "no_jobs")
       ELSE p_pc' = "store_companies" /\ UNCHANGED p_events
    /\ UNCHANGED <<p_config, p_fault, p_prior, p_db, p_companies, p_ci, p_failed, p_api_jobs,
                   p_input, p_pending, p_outcomes, p_detailed, p_to_store, p_stats,
                   mvars, cvars, xvars>>

\* what discover_all_companies can return
AsyncDiscovered == { <<>>, <<"c1">>, <<"c1", "c2">> }

\* scraper.py lines 59-64, main_scraper_async.py lines 56-65
AsyncDiscover ==
    /\ p_pc = "discover" /\ p_config.variant \in {"swap", "async"}
    /\ p_companies' \in AsyncDiscovered
    /\ IF p_companies' = <<>>
       THEN p_pc' = "done" /\ p_events' = Append(p_events, "no_companies")
       ELSE p_pc' = "collect" /\ UNCHANGED p_events
    /\ UNCHANGED <<p_config, p_fault, p_prior, p_db, p_ci, p_failed, p_api_jobs, p_input,
                   p_pending, p_outcomes, p_detailed, p_to_store, p_stats, mvars, cvars, xvars>>

\* What scrape_all_companies collects for one company: a listing in full,
\* or nothing when the company's collection fails.
CompanyCollections(company_slug) ==
    {[jobs |-> ParseAll(listing), failed |-> FALSE] : listing \in ListingsOf(company_slug)}
        \cup {[jobs |-> <<>>, failed |-> TRUE]}

RECURSIVE Concat(_)
Concat(lists) == IF lists = <<>> THEN <<>> ELSE Head(lists) \o Concat(Tail(lists))

\* scrape_all_companies(companies): the records of every company, a failing
\* company contributing none
scrape_all_companies(companies, collected) ==
    Concat([i \in DOMAIN companies |-> collected[i].jobs])

\* scraper.py lines 70-75, main_scraper_async.py lines 71-76
AsyncCollect ==
    /\ p_pc = "collect" /\ p_config.variant \in {"swap", "async"}
    /\ \E collected \in [DOMAIN p_companies ->
                           UNION {CompanyCollections(c) : c \in CompanySlugs}] :
          /\ \A i \in DOMAIN p_companies :
                 collected[i] \in CompanyCollections(p_companies[i])
          /\ p_api_jobs' = scrape_all_companies(p_companies, collected)
          /\ p_failed' = {p_companies[i] : i \in {j \in DOMAIN p_companies :
                                                      collected[j].failed}}
    /\ p_ci' = Len(p_companies)
    /\ IF p_api_jobs' = <<>>
       THEN p_pc' = "done" /\ p_events' = Append(p_events, "no_jobs")
       ELSE p_pc' = "enhance" /\ UNCHANGED p_events
    /\ UNCHANGED <<p_config, p_fault, p_prior, p_db, p_companies, p_input, p_pending,
                   p_outcomes, p_detailed, p_to_store, p_stats, mvars, cvars, xvars>>

\* main_scraper.py line 139 and _store_companies_from_jobs
SyncStoreCompanies ==
    /\ p_pc = "store_companies"
    /\ p_db' = StoreCompanyLoop(p_db, CompaniesOf(p_api_jobs, {}), p_fault = "store_companies")
    /\ p_pc' = "enhance"
    /\ UNCHANGED <<p_config, p_fault, p_prior, p_companies, p_ci, p_failed, p_api_jobs,
                   p_input, p_pending, p_outcomes, p_detailed, p_to_store, p_stats,
                   p_events, mvars, cvars, xvars>>

\* main_scraper.py lines 142-153: detailed_jobs = api_jobs.copy(), replaced
\* by the enriched jobs_with_urls when details are asked for and some
\* record has a URL
SyncEnhanceBegin ==
    /\ p_pc = "enhance" /\ p_config.variant = "sync"
    /\ LET jobs_with_urls == SelectSeq(p_api_jobs, HasUrl)
       IN  IF p_config.scrape_details /\ jobs_with_urls # <<>>
           THEN /\ p_input' = jobs_with_urls
                /\ p_pending' = DOMAIN jobs_with_urls
                /\ p_pc' = "enhancing"
                /\ UNCHANGED <<p_to_store, p_events>>
           ELSE /\ p_to_store' = p_api_jobs
                /\ p_events' = Append(p_events, "enriched")
                /\ p_pc' = "store_jobs"
                /\ UNCHANGED <<p_input, p_pending>>
    /\ UNCHANGED <<p_config, p_fault, p_prior, p_db, p_companies, p_ci, p_failed, p_api_jobs,
                   p_outcomes, p_detailed, p_stats, mvars, cvars, xvars>>

\* where the run goes once the enrichment step has returned
AfterEnhance(variant) ==
    CASE variant = "swap"  -> "clear"
      [] variant = "sync"  -> "store_jobs"
      [] variant = "async" -> "store"

\* _enhance_jobs_with_details of scraper.py (lines 149-156) and of
\* main_scraper_async.py (lines 115-120): without a URL in any record the
\* jobs are returned as they are
AsyncEnhanceBegin ==
    /\ p_pc = "enhance" /\ p_config.variant \in {"swap", "async"}
    /\ LET jobs_with_urls == SelectSeq(p_api_jobs, HasUrl)
       IN  IF jobs_with_urls # <<>>
           THEN /\ p_input' = jobs_with_urls
                /\ p_pending' = DOMAIN jobs_with_urls
                /\ p_pc' = "enhancing"
                /\ UNCHANGED <<p_to_store, p_events>>
           ELSE /\ p_to_store' = p_api_jobs
                /\ p_events' = Append(p_events, "enriched")
                /\ p_pc' = AfterEnhance(p_config.variant)
                /\ UNCHANGED <<p_input, p_pending>>
    /\ UNCHANGED <<p_config, p_fault, p_prior, p_db, p_companies, p_ci, p_failed, p_api_jobs,
                   p_outcomes, p_detailed, p_stats, mvars, cvars, xvars>>

\* a result list that takes the records of successful calls only
CollectedDropsFailures(detailed, result, outcome) ==
    IF outcome.kind = "ok" THEN Append(detailed, result) ELSE detailed

\* A finished call's record is appended to the result list, whatever the
\* call's outcome was.
Collected(detailed, result, outcome) == Append(detailed, result)

\* One record's enrichment call finishes.  scraper.py awaits the calls one
\* after the other and asyncio.gather returns results in the order of the calls;
\* as_completed of main_scraper.py yields them in the order they finish.
EnhanceStep ==
    /\ p_pc = "enhancing" /\ p_pending # {}
    /\ \E i \in p_pending :
          /\ p_config.variant = "sync" \/ \A j \in p_pending : i <= j
          /\ \E outcome \in RunOutcomes(p_config.variant, p_input[i]["job_url"]) :
                /\ p_detailed' = Collected(p_detailed,
                                     EnhanceOne(p_config.variant, p_input[i], outcome),
                                     outcome)
                /\ p_outcomes' = p_outcomes @@ (i :> outcome.kind)
          /\ p_pending' = p_pending \ {i}
    /\ UNCHANGED <<p_pc, p_config, p_fault, p_prior, p_db, p_companies, p_ci, p_failed,
                   p_api_jobs, p_input, p_to_store, p_stats, p_events, mvars, cvars, xvars>>

\* The enrichment step raises: scraper.py lines 112-116 abort the run, in
\* the other orchestrators the exception reaches the outer except clause.
EnhanceRaises ==
    /\ p_pc = "enhancing"
    /\ Fatal
    /\ p_events' = Append(p_events, "enrich_raised")
    /\ UNCHANGED <<p_config, p_fault, p_prior, p_db, p_companies, p_ci, p_failed, p_api_jobs,
                   p_input, p_pending, p_outcomes, p_detailed, p_to_store, mvars, cvars, xvars>>

\* The list the enrichment step hands on: scraper.py and
\* main_scraper_async.py add the records without a URL (jobs_without_urls),
\* main_scraper.py takes the result of _scrape_job_details_parallel as it is.
EnhancedJobs(variant, api_jobs, detailed) ==
    IF variant = "sync" THEN detailed
    ELSE detailed \o SelectSeq(api_jobs, HasNoUrl)

EnhanceEnd ==
    /\ p_pc = "enhancing" /\ p_pending = {}
    /\ p_to_store' = EnhancedJobs(p_config.variant, p_api_jobs, p_detailed)
    /\ p_events' = Append(p_events, "enriched")
    /\ p_pc' = AfterEnhance(p_config.variant)
    /\ UNCHANGED <<p_config, p_fault, p_prior, p_db, p_companies, p_ci, p_failed, p_api_jobs,
                   p_input, p_pending, p_outcomes, p_detailed, p_stats, mvars, cvars, xvars>>

\* scraper.py lines 108-110: fewer than half of the records carry enhanced
\* data
LowEnhancementRate(jobs) == 2 * EnhancedCount(jobs) < Len(jobs)

\* scraper.py lines 87-120: an empty result aborts, a low enhancement rate
\* is logged, then truncate_all_data
SwapClear ==
    /\ p_pc = "clear"
    /\ IF p_to_store = <<>>
       THEN p_pc' = "done" /\ UNCHANGED <<p_db, p_events, p_stats>>
       ELSE LET res  == truncate_all_data(p_db, p_fault = "truncate")
                warn == IF LowEnhancementRate(p_to_store)
                        THEN <<"low_enhancement_rate">> ELSE <<>>
            IN  IF res.ok
                THEN /\ p_db' = res.db
                     /\ p_events' = p_events \o warn \o <<"truncate">>
                     /\ p_pc' = "store"
                     /\ UNCHANGED p_stats
                ELSE /\ Fatal
                     /\ p_events' = p_events \o warn
                     /\ p_db' = p_db
    /\ UNCHANGED <<p_config, p_fault, p_prior, p_companies, p_ci, p_failed, p_api_jobs,
                   p_input, p_pending, p_outcomes, p_detailed, p_to_store, mvars, cvars, xvars>>

\* scraper.py lines 124-125: _store_companies, then _store_jobs
SwapStore ==
    /\ p_pc = "store" /\ p_config.variant = "swap"
    /\ LET companies == bulk_store_companies(p_db, p_to_store, p_fault = "store_companies")
           jobs      == bulk_store_jobs(companies.db, p_to_store, RunStart,
                                        p_fault = "store_jobs")
       IN  /\ p_db' = jobs.db
           /\ p_stats' = [p_stats EXCEPT !.jobs_stored = jobs.stored]
    /\ p_pc' = "done"
    /\ UNCHANGED <<p_config, p_fault, p_prior, p_companies, p_ci, p_failed, p_api_jobs,
                   p_input, p_pending, p_outcomes, p_detailed, p_to_store, p_events,
                   mvars, cvars, xvars>>

\* main_scraper_async.py lines 86-87: _store_companies, then _store_jobs
AsyncStore ==
    /\ p_pc = "store" /\ p_config.variant = "async"
    /\ LET companies == StoreCompanyLoop(p_db, CompaniesOf(p_to_store, {}),
                                         p_fault = "store_companies")
           jobs      == StoreJobLoop(companies, p_to_store, RunStart, "async",
                                     p_fault = "store_jobs")
       IN  /\ p_db' = jobs.db
           /\ p_stats' = [p_stats EXCEPT !.jobs_stored = jobs.stored]
    /\ p_pc' = "cleanup"
    /\ UNCHANGED <<p_config, p_fault, p_prior, p_companies, p_ci, p_failed, p_api_jobs,
                   p_input, p_pending, p_outcomes, p_detailed, p_to_store, p_events,
                   mvars, cvars, xvars>>

\* main_scraper.py lines 157-158
SyncStoreJobs ==
    /\ p_pc = "store_jobs"
    /\ LET jobs == StoreJobLoop(p_db, p_to_store, RunStart, "sync", p_fault = "store_jobs")
       IN  /\ p_db' = jobs.db
           /\ p_stats' = [p_stats EXCEPT !.jobs_stored = jobs.stored]
    /\ p_pc' = "cleanup"
    /\ UNCHANGED <<p_config, p_fault, p_prior, p_companies, p_ci, p_failed, p_api_jobs,
                   p_input, p_pending, p_outcomes, p_detailed, p_to_store, p_events,
                   mvars, cvars, xvars>>

\* main_scraper.py lines 162-164, main_scraper_async.py lines 91-92
TimeWindowCleanup ==
    /\ p_pc = "cleanup"
    /\ LET res == cleanup_old_data(p_db, RunStart, p_fault = "cleanup")
       IN  /\ p_db' = res.db
           /\ p_events' = IF res.ok THEN Append(p_events, "cleanup") ELSE p_events
           /\ p_stats' = [p_stats EXCEPT !.jobs_removed =
                              Cardinality(p_db.jobs) - Cardinality(res.db.jobs)]
    /\ p_pc' = "done"
    /\ UNCHANGED <<p_config, p_fault, p_prior, p_companies, p_ci, p_failed, p_api_jobs,
                   p_input, p_pending, p_outcomes, p_detailed, p_to_store, mvars, cvars, xvars>>

Next ==
    \/ SyncStart \/ SyncDiscover \/ SyncCollectCompany \/ SyncCollected
    \/ AsyncDiscover \/ AsyncCollect
    \/ SyncStoreCompanies \/ SyncEnhanceBegin \/ AsyncEnhanceBegin
    \/ EnhanceStep \/ EnhanceRaises \/ EnhanceEnd
    \/ SwapClear \/ SwapStore \/ AsyncStore \/ SyncStoreJobs \/ TimeWindowCleanup

Spec == Init /\ [][Next]_vars

-----------------------------------------------------------------------------
(* Properties of a run.                                                     *)

Happened(event) == event \in Range(p_events)

\* C1: in scraper.py truncate_all_data is called only if the enhanced set is
\* non-empty and at least half of its records carry an enhanced field; when
\* none of the N >= 1 records is enhanced the store is not cleared and holds
\* as many rows after the run as before it.
C1_TruncateGatedOnEnrichment ==
    p_config.variant = "swap" =>
        /\ Happened("truncate") =>
               (p_to_store # <<>> /\ ~LowEnhancementRate(p_to_store))
        /\ (p_pc = "done" /\ p_to_store # <<>> /\ EnhancedCount(p_to_store) = 0) =>
               Cardinality(p_db.jobs) = Cardinality(p_prior.jobs)

Destructive == {"truncate", "cleanup"}

\* C2: in every run of an orchestrator no truncate_all_data and no DELETE of
\* cleanup_old_data is executed before the enrichment step is over, and none
\* at all in a run in which discovery returned no companies, collection
\* returned no jobs or the enrichment step raised.
C2_NoDestructiveBeforeEnrichment ==
    /\ \A i \in DOMAIN p_events :
           p_events[i] \in Destructive =>
               \E j \in 1 .. (i - 1) : p_events[j] = "enriched"
    /\ (Happened("no_companies") \/ Happened("no_jobs") \/ Happened("enrich_raised")) =>
           \A i \in DOMAIN p_events : p_events[i] \notin Destructive

\* the store holds the freshly enriched set, whole
HoldsFreshSet ==
    /\ JobSlugsIn(p_db) = {job["slug"] : job \in Range(p_to_store)}
    /\ CompanySlugsIn(p_db) = {c.slug : c \in Range(CompaniesOf(p_to_store, {}))}
    /\ \A r \in p_db.jobs : r.updated_at = RunStart

\* C3: after scrape_all_jobs of scraper.py has returned, the store holds
\* either all it held before the run or the whole freshly enriched set; a
\* write error in _store_companies or _store_jobs leaves it neither empty
\* nor partly filled.
C3_SwapIsAtomic ==
    (p_config.variant = "swap" /\ p_pc = "done") =>
        \/ (p_db.jobs = p_prior.jobs /\ p_db.companies = p_prior.companies)
        \/ HoldsFreshSet

\* the job writer reported fewer records than it was given
JobWritesFailed == p_stats.jobs_stored < Len(p_to_store)

\* C4: in the time-window orchestrators a run in which the collection of
\* some discovered company failed, or in which job writes failed, deletes no
\* stored job of the companies concerned.
C4_CleanupOnlyAfterSuccess ==
    (p_config.variant \in {"sync", "async"} /\ ~p_config.truncate_first /\ p_pc = "done") =>
        \A r \in p_prior.jobs :
            (r.cols["company_slug"] \in p_failed \/ JobWritesFailed) =>
                r.cols["slug"] \in JobSlugsIn(p_db)

\* the call of input record i has finished without a usable result
CallFailed(i) == i \in DOMAIN p_outcomes /\ p_outcomes[i] \in {"none", "raise", "timeout"}

\* C6: the enrichment step has one output record for each finished call, all
\* of its input records once every call has finished, and a record whose
\* call failed or timed out is in the output as the base record it was.
C6_EnrichmentKeepsEveryRecord ==
    /\ Len(p_detailed) = Len(p_input) - Cardinality(p_pending)
    /\ (p_input # <<>> /\ p_pending = {}) =>
           \E pi \in Permutations(DOMAIN p_input) :
               \A i \in DOMAIN p_input :
                   CallFailed(i) => p_detailed[pi[i]] = p_input[i]

C6_Witness ==
    /\ Happened("enriched") /\ Len(p_input) = 2 /\ p_config.variant = "swap"
    /\ p_outcomes[1] = "timeout" /\ p_outcomes[2] = "ok"
    /\ has_enhanced_data(p_detailed[2]) /\ p_detailed[1] = p_input[1]

\* C7: in a run with detail enrichment enabled, every collected record
\* without a job_url is in the list handed to the job writer.
C7_NoUrlRecordsReachWriter ==
    (p_config.scrape_details /\ Happened("enriched")) =>
        \A i \in DOMAIN p_api_jobs :
            HasNoUrl(p_api_jobs[i]) => p_api_jobs[i] \in Range(p_to_store)

------------------------------------------------------------------------\* C18: a job row written in this run that carries a company_slug holds the
\* id of the company row with that slug, which the store has by then.
C18_ParentWrittenBeforeChild ==
    \A r \in p_db.jobs :
        (r.updated_at = RunStart /\ Truthy(r.cols["company_slug"])) =>
            /\ r.cols["company_slug"] \in CompanySlugsIn(p_db)
            /\ r.company_id = CompanyId(p_db, r.cols["company_slug"])

-----
(* SpecFetch: a JobPageParser and the scrape_job_page calls made on it, one *)
(* after the other, each with a job_url (the orchestrators call it for       *)
(* records with a job_url only).                                             *)

FetchOthers == <<mvars, cvars, pvars, gvars, wvars, uvars, tvars, svars, evars, avars, ivars>>

FetchInit ==
    /\ MIdle /\ CIdle /\ PIdle /\ GIdle /\ WIdle /\ UIdle /\ TIdle /\ SIdle /\ EIdle /\ AIdle /\ IIdle
    /\ f_pc = "idle" /\ f_client = NewClient /\ f_attempt = 0 /\ f_call_gets = 0
    /\ f_result = "none" /\ f_last = "none" /\ f_get = Get0
    /\ f_after_block = FALSE /\ f_blocked_ua = 0 /\ f_consec = 0

\* scrape_job_page is called: lines 71-76
FetchCall ==
    /\ f_pc = "idle"
    /\ f_client' = RenewIfDue(f_client)
    /\ f_attempt' = 0 /\ f_call_gets' = 0
    /\ f_result' = "none" /\ f_last' = "none"
    /\ f_pc' = "attempt"
    /\ UNCHANGED <<f_get, f_after_block, f_blocked_ua, f_consec, FetchOthers>>

\* one pass of the retry loop: the GET and what follows it, lines 78-147
FetchAttempt ==
    /\ f_pc = "attempt"
    /\ \E resp \in Responses :
          LET sent == [f_client EXCEPT !.rsr = @ + 1, !.gets = @ + 1]
              r    == Respond(sent, f_attempt, resp)
          IN  /\ f_get' = [ua |-> f_client.ua, gets_before |-> f_client.gets,
                           after_block |-> f_after_block, blocked_ua |-> f_blocked_ua,
                           after_failed_calls |-> IF f_call_gets = 0 THEN f_consec ELSE 0]
              /\ f_after_block' = (resp \in {"429", "block"})
              /\ f_blocked_ua' = IF resp \in {"429", "block"} THEN f_client.ua
                                 ELSE f_blocked_ua
              /\ f_client' = r.client
              /\ f_last' = resp
              /\ f_call_gets' = f_call_gets + 1
              /\ f_result' = r.result
              /\ IF r.next = "continue"
                 THEN /\ f_attempt' = f_attempt + 1
                      /\ f_pc' = "attempt"
                      /\ UNCHANGED f_consec
                 ELSE /\ f_attempt' = f_attempt
                      /\ f_pc' = "idle"
                      /\ f_consec' = IF r.result = "data" THEN 0
                                     ELSE IF f_consec < FailLimit THEN f_consec + 1
                                     ELSE f_consec
    /\ UNCHANGED FetchOthers

FetchNext == FetchCall \/ FetchAttempt

SpecFetch == FetchInit /\ [][FetchNext]_vars

Returned == f_pc = "idle" /\ f_call_gets > 0

\* C11: a call sends at most 3 GETs; after a failed attempt below the
\* ceiling (a 429, a 403/404/502/503 status, a network failure) another
\* attempt is made; a call whose attempts all failed returns None.
C11_RetriesUpToCeiling ==
    /\ f_call_gets <= MaxRetries
    /\ (Returned /\ f_last \in {"429", "block", "network"}) =>
           (f_call_gets = MaxRetries /\ f_result = "None")

\* C12: the GET that follows a 429 or 403/404/502/503 response goes out on
\* a new session, one no GET was sent on yet, whose user-agent is the entry
\* of user_agents after the one of the session that got the response.
C12_BlockRotatesIdentity ==
    f_get.after_block =>
        /\ f_get.gets_before = 0
        /\ f_get.ua = (f_get.blocked_ua + 1) % NumAgents

C12_Witness ==
    /\ f_get.after_block /\ f_get.blocked_ua = NumAgents - 1 /\ f_get.ua = 0
    /\ f_last = "ok" /\ f_pc = "idle"

\* C13: no session is used for more than 50 GETs.
C13_RenewedAfter50Requests == f_client.gets <= RenewAfter /\ f_client.rsr <= RenewAfter

\* C14: a call whose attempts all failed has incremented failed_requests
\* (which a renewal during the call had set to 0 at most), a successful call
\* has reset it to 0, and the first GET after two
\* consecutive failed calls goes out on a session no GET was sent on yet.
C14_ConsecutiveFailuresRotate ==
    /\ (Returned /\ f_result = "None") => f_client.failed >= 1
    /\ (Returned /\ f_result = "data") => f_client.failed = 0
    /\ f_get.after_failed_calls = FailLimit => f_get.gets_before = 0

-----------------------------------------------------------------------------
(* SpecDiscover: one call of get_all_companies.                             *)

DiscoverOthers == <<mvars, cvars, pvars, fvars, wvars, uvars, tvars, svars, evars, avars, ivars>>

DiscoverInit ==
    /\ MIdle /\ CIdle /\ PIdle /\ FIdle /\ WIdle /\ UIdle /\ TIdle /\ SIdle /\ EIdle /\ AIdle /\ IIdle
    /\ g_pc = "queries" /\ g_i = 0 /\ g_companies = {} /\ g_attempted = {}
    /\ g_failed = 0 /\ g_result = <<>>

\* one pass of the loop over search_queries, lines 40-58: the general
\* request, then the search, the except clause ending the pass
DiscoverQuery ==
    /\ g_pc = "queries" /\ g_i < NumQueries
    /\ \E general \in RequestOutcomes, search \in RequestOutcomes :
          LET q == g_i + 1
          IN  IF general.kind = "raise"
              THEN /\ g_attempted' = g_attempted \cup {GeneralRequest(q)}
                   /\ g_failed' = g_failed + 1
                   /\ UNCHANGED g_companies
              ELSE /\ g_attempted' = g_attempted \cup {GeneralRequest(q), SearchRequest(q)}
                   /\ g_failed' = g_failed
                          + (IF general.kind = "none" THEN 1 ELSE 0)
                          + (IF search.kind # "page" THEN 1 ELSE 0)
                   /\ g_companies' = g_companies \cup general.slugs \cup search.slugs
    /\ g_i' = g_i + 1
    /\ UNCHANGED <<g_pc, g_result, DiscoverOthers>>

\* the loop over search_queries is through
DiscoverQueriesDone ==
    /\ g_pc = "queries" /\ g_i = NumQueries
    /\ g_pc' = "offsets" /\ g_i' = 0
    /\ UNCHANGED <<g_companies, g_attempted, g_failed, g_result, DiscoverOthers>>

\* one pass of the loop over the offsets, lines 61-69
DiscoverOffset ==
    /\ g_pc = "offsets" /\ g_i < NumOffsets
    /\ \E general \in RequestOutcomes :
          /\ g_companies' = g_companies \cup general.slugs
          /\ g_failed' = g_failed + (IF general.kind # "page" THEN 1 ELSE 0)
    /\ g_attempted' = g_attempted \cup {OffsetRequest(g_i + 1)}
    /\ g_i' = g_i + 1
    /\ UNCHANGED <<g_pc, g_result, DiscoverOthers>>

\* lines 71-79: the list of the discovered slugs, or the known companies
DiscoverReturn ==
    /\ g_pc = "offsets" /\ g_i = NumOffsets
    /\ IF FallbackNeeded(g_companies)
       THEN g_result' = KnownCompanies
       ELSE g_result' \in Orderings(g_companies)
    /\ g_pc' = "done"
    /\ UNCHANGED <<g_i, g_companies, g_attempted, g_failed, DiscoverOthers>>

DiscoverNext ==
    DiscoverQuery \/ DiscoverQueriesDone \/ DiscoverOffset \/ DiscoverReturn

SpecDiscover == DiscoverInit /\ [][DiscoverNext]_vars

C16_FailureSkipsNothing ==
    /\ g_pc \in {"offsets", "done"} =>
           \A q \in 1 .. NumQueries :
               {GeneralRequest(q), SearchRequest(q)} \subseteq g_attempted
    /\ g_pc = "done" => g_attempted = AllDiscoveryRequests

-----------------------------------------------------------------------------
(* SpecPages: the primary walk of discover_all_companies over one listing.  *)

PagesOthers == <<mvars, cvars, pvars, fvars, gvars, uvars, tvars, svars, evars, avars, ivars>>

\* a listing of w_n records behind an upstream that answers the w_form-th
\* parameter combination first
PagesInit ==
    /\ MIdle /\ CIdle /\ PIdle /\ FIdle /\ GIdle /\ UIdle /\ TIdle /\ SIdle /\ EIdle /\ AIdle /\ IIdle
    /\ w_pc = "first"
    /\ w_form \in DOMAIN param_combinations
    /\ w_n \in ListingSizes
    /\ w_skip = 0 /\ w_page = 0 /\ w_companies = {} /\ w_requests = 0
    /\ w_starts = <<>> /\ w_error = FALSE

\* lines 73-87: the request that succeeds, and the entry of _scrape_all_pages
PagesFirst ==
    /\ w_pc = "first"
    /\ LET base_params == param_combinations[w_form]
       IN  /\ w_companies' = Entities(FormOf(w_form), base_params, w_n)
           /\ w_skip' = StartSkip(base_params)
    /\ w_page' = 0
    /\ w_pc' = "walk"
    /\ UNCHANGED <<w_form, w_n, w_requests, w_starts, w_error, PagesOthers>>

\* one pass of the while loop, lines 136-176
PagesStep ==
    /\ w_pc = "walk" /\ w_requests < MaxWalk
    /\ w_requests' = w_requests + 1
    /\ \E status \in {"200", "non200", "exception"} :
          LET base_params == param_combinations[w_form]
              params   == PageParams(base_params, w_skip, w_page)
              entities == Entities(FormOf(w_form), params, w_n)
              limit    == LimitOf(base_params)
          IN  IF status = "200"
              THEN /\ w_starts' = Append(w_starts, PageStart(FormOf(w_form), params))
                   /\ w_companies' = w_companies \cup entities
                   /\ UNCHANGED w_error
                   /\ IF entities # {} /\ Cardinality(entities) >= limit
                      THEN /\ w_skip' = w_skip + limit
                           /\ w_page' = w_page + 1
                           /\ UNCHANGED w_pc
                      ELSE /\ w_pc' = "done"
                           /\ UNCHANGED <<w_skip, w_page>>
              ELSE /\ w_pc' = "done"
                   /\ w_error' = TRUE
                   /\ UNCHANGED <<w_starts, w_companies, w_skip, w_page>>
    /\ UNCHANGED <<w_form, w_n, PagesOthers>>

PagesNext == PagesFirst \/ PagesStep

SpecPages == PagesInit /\ [][PagesNext]_vars

\* C17: the walk asks for a later page with every request, so that it ends
\* after the pages of the listing, and when it ends on a short page every
\* record's company has been collected.
C17_WalkAdvancesAndCollects ==
    /\ \A i \in DOMAIN w_starts : i > 1 => w_starts[i] > w_starts[i - 1]
    /\ w_requests <= (w_n \div LimitOf(param_combinations[w_form])) + 1
    /\ (w_pc = "done" /\ ~w_error) => w_companies = 1 .. w_n

-----------------------------------------------------------------------------
(* SpecUpsert: the same calls made twice, one pass after the other, on a    *)
(* store that earlier runs have filled.                                     *)

UpsertOthers == <<mvars, cvars, pvars, fvars, gvars, wvars, tvars, svars, evars, avars, ivars>>

UpsertInit ==
    /\ MIdle /\ CIdle /\ PIdle /\ FIdle /\ GIdle /\ WIdle /\ TIdle /\ SIdle /\ EIdle /\ AIdle /\ IIdle
    /\ u_pc = "first"
    /\ u_input \in Inputs
    /\ u_k = 1
    /\ u_db \in PriorStores
    /\ u_first = EmptyStore
    /\ u_now = RunStart
    /\ u_written = {}

\* the next call of the pass
UpsertCall ==
    /\ u_pc \in {"first", "second"} /\ u_k <= Len(u_input)
    /\ LET res == Write(u_db, u_input[u_k], u_now)
       IN  /\ u_db' = res.db
           /\ u_written' = res.rows
    /\ u_k' = u_k + 1
    /\ UNCHANGED <<u_pc, u_input, u_first, u_now, UpsertOthers>>

\* the first pass is through: the same input is reconciled again, later
UpsertAgain ==
    /\ u_pc = "first" /\ u_k > Len(u_input)
    /\ u_pc' = "second"
    /\ u_first' = u_db
    /\ u_k' = 1
    /\ u_now' = u_now + 1
    /\ u_written' = {}
    /\ UNCHANGED <<u_input, u_db, UpsertOthers>>

UpsertDone ==
    /\ u_pc = "second" /\ u_k > Len(u_input)
    /\ u_pc' = "done"
    /\ u_written' = {}
    /\ UNCHANGED <<u_input, u_k, u_db, u_first, u_now, UpsertOthers>>

UpsertNext == UpsertCall \/ UpsertAgain \/ UpsertDone

SpecUpsert == UpsertInit /\ [][UpsertNext]_vars

\* a job row without its updated_at
Untimed(r) == [cols |-> r.cols, company_id |-> r.company_id]

C20_SecondWriteReplacesAll ==
    \A w \in u_written :
        \E r \in u_db.jobs :
            /\ r.cols = w.cols
            /\ r.updated_at = w.updated_at
            /\ w.company_id # None => r.company_id = w.company_id

\* the call the pass is about to make is an insert_job of a stored slug
UpdateDue ==
    /\ u_pc \in {"first", "second"} /\ u_k <= Len(u_input)
    /\ u_input[u_k].op = "insert_job"
    /\ u_input[u_k].jobs[1]["slug"] \in JobSlugsIn(u_db)

\* C30: insert_job on a stored slug leaves every company row and every
\* other job row as it was and the number of rows the same; in the row of
\* the slug it sets the columns of its SET list and updated_at and leaves
\* slug, company_id and created_at; when it fails the store is as it was and
\* nothing is reported written.
C30_UpdateFrame ==
    [][(UpdateDue /\ u_k' = u_k + 1) =>
          LET job == u_input[u_k].jobs[1]
              old == CHOOSE r \in u_db.jobs : r.cols["slug"] = job["slug"]
          IN  /\ u_db'.companies = u_db.companies
              /\ u_db'.next_id = u_db.next_id
              /\ (u_db.jobs \ {old}) \subseteq u_db'.jobs
              /\ Cardinality(u_db'.jobs) = Cardinality(u_db.jobs)
              /\ IF job["title"] \in {None, Absent}
                 THEN u_db' = u_db /\ u_written' = {}
                 ELSE /\ u_written' # {}
                      /\ \E r \in u_db'.jobs :
                            /\ r.cols = ColsOf(job)
                            /\ r.cols["slug"] = old.cols["slug"]
                            /\ r.updated_at = u_now
                            /\ r.company_id = old.company_id
                            /\ r.created_at = old.created_at]_vars

C30_Witness ==
    /\ u_pc = "first" /\ u_k = 2
    /\ u_input[1] = WriteCall("insert_job", <<J1b>>, NoCompany)
    /\ Cardinality(u_db.jobs) = 3
    /\ \E r \in u_db.jobs :
          /\ r.cols["slug"] = "j1" /\ r.cols["title"] = "Senior Engineer"
          /\ r.company_id = IdOf(1)
          /\ r.created_at = Stale /\ r.updated_at = RunStart

-----------------------------------------------------------------------------
(* SpecSanitise: a writer binds one text value of a record and the store    *)
(* takes it or refuses it.                                                  *)

SanitiseOthers == <<mvars, cvars, pvars, fvars, gvars, wvars, uvars, svars, evars, avars, ivars>>

SanitiseInit ==
    /\ MIdle /\ CIdle /\ PIdle /\ FIdle /\ GIdle /\ WIdle /\ UIdle /\ SIdle /\ EIdle /\ AIdle /\ IIdle
    /\ t_pc = "raw"
    /\ t_variant \in Variants
    /\ t_field \in TextColumns
    /\ t_value \in Texts
    /\ t_handed = NoText /\ t_ok = FALSE

\* the writer prepares the parameter
SanitiseBind ==
    /\ t_pc = "raw"
    /\ t_handed' = Handed(t_variant, t_field, t_value)
    /\ t_pc' = "handed"
    /\ UNCHANGED <<t_variant, t_field, t_value, t_ok, SanitiseOthers>>

\* the statement is executed
SanitiseExecute ==
    /\ t_pc = "handed"
    /\ t_ok' = StoreTakes(t_field, t_handed)
    /\ t_pc' = "done"
    /\ UNCHANGED <<t_variant, t_field, t_value, t_handed, SanitiseOthers>>

SanitiseNext == SanitiseBind \/ SanitiseExecute

SpecSanitise == SanitiseInit /\ [][SanitiseNext]_vars

\* C21: the value a writer binds holds no null byte and is no longer than
\* its column, and the write of it succeeds.
C21_TextSanitisedNotRejected ==
    /\ (t_pc \in {"handed", "done"} /\ ~t_handed.none) =>
           /\ \A i \in DOMAIN t_handed.chars : t_handed.chars[i] # NUL
           /\ ColumnBound(t_field) # Unbounded => Len(t_handed.chars) <= ColumnBound(t_field)
    /\ t_pc = "done" => t_ok

-----------------------------------------------------------------------------
(* SpecSweep: main_scraper.py from mark_scraping_start to cleanup_old_data, *)
(* on a store that earlier runs have filled.  The store's clock reads       *)
(* RunStart throughout.                                                     *)

SweepOthers == <<mvars, cvars, pvars, fvars, gvars, wvars, uvars, tvars, evars, avars, ivars>>

SweepInit ==
    /\ MIdle /\ CIdle /\ PIdle /\ FIdle /\ GIdle /\ WIdle /\ UIdle /\ TIdle /\ EIdle /\ AIdle /\ IIdle
    /\ s_pc = "mark"
    /\ s_skew \in Skews
    /\ s_ts = 0
    /\ s_api \in SweepApiJobs
    /\ s_detailed = <<>>
    /\ s_prior \in PriorStores \cup {OrphanStore}
    /\ s_db = s_prior
    /\ s_before = EmptyStore /\ s_committed = FALSE
    /\ s_stats = CleanupStats(0, 0)

\* mark_scraping_start: datetime.now() of the orchestrator
SweepMark ==
    /\ s_pc = "mark"
    /\ s_ts' = RunStart + s_skew
    /\ s_pc' = "companies"
    /\ UNCHANGED <<s_skew, s_api, s_detailed, s_prior, s_db, s_before, s_committed, s_stats,
                   SweepOthers>>

\* _store_companies_from_jobs(api_jobs), then the enrichment
SweepStoreCompanies ==
    /\ s_pc = "companies"
    /\ s_db' = StoreCompanyLoop(s_db, CompaniesOf(s_api, {}), FALSE)
    /\ s_detailed' \in DetailedOf(s_api)
    /\ s_pc' = "jobs"
    /\ UNCHANGED <<s_skew, s_ts, s_api, s_prior, s_before, s_committed, s_stats,
                   SweepOthers>>

\* _store_jobs_in_database(detailed_jobs)
SweepStoreJobs ==
    /\ s_pc = "jobs"
    /\ s_db' = StoreJobLoop(s_db, s_detailed, RunStart, "sync", FALSE).db
    /\ s_pc' = "cleanup"
    /\ UNCHANGED <<s_skew, s_ts, s_api, s_detailed, s_prior, s_before, s_committed, s_stats,
                   SweepOthers>>

\* cleanup_old_data(scrape_timestamp)
SweepCleanup ==
    /\ s_pc = "cleanup"
    /\ \E fails \in BOOLEAN :
          LET res == cleanup_old_data(s_db, s_ts, fails)
          IN  /\ s_db' = res.db
              /\ s_committed' = res.ok
              /\ s_stats' \in CleanupReturns(s_db, [ts |-> s_ts, ok |-> res.ok])
    /\ s_before' = s_db
    /\ s_pc' = "done"
    /\ UNCHANGED <<s_skew, s_ts, s_api, s_detailed, s_prior, SweepOthers>>

SweepNext == SweepMark \/ SweepStoreCompanies \/ SweepStoreJobs \/ SweepCleanup

SpecSweep == SweepInit /\ [][SweepNext]_vars

\* C22: once cleanup_old_data has committed, no job is older than
\* scrape_timestamp minus the grace hour, every job the run wrote is still
\* there, every company left has a job left, and the two counts returned are
\* the numbers of rows deleted.
C22_SweepKeepsTheRun ==
    (s_pc = "done" /\ s_committed) =>
        /\ \A r \in s_db.jobs : r.updated_at >= s_ts - GraceHours
        /\ \A r \in s_before.jobs : r.updated_at = RunStart => r \in s_db.jobs
        /\ \A c \in s_db.companies : \E r \in s_db.jobs : r.company_id = c.id
        /\ s_stats.jobs_removed = Cardinality(s_before.jobs \ s_db.jobs)
        /\ s_stats.companies_removed = Cardinality(s_before.companies \ s_db.companies)

\* C23: cleanup_old_data deletes no company whose slug is the company_slug
\* of a job that stays.
C23_NoParentDeletedWithChildren ==
    (s_pc = "done" /\ s_committed) =>
        \A c \in s_before.companies :
            (\E r \in s_db.jobs : r.cols["company_slug"] = c.slug) => c \in s_db.companies

\* the rows of a slug
RowsOf(db, slug) == {r \in db.jobs : r.cols["slug"] = slug}

-----------------------------------------------------------------------------
(* Spec: the way of a run to its return statement.                          *)

\* the statements of a run still ahead, by the phase it is in and by what
\* is left of the loop of that phase
PhasesAhead ==
    CASE p_pc = "start" -> 9
      [] p_pc = "discover" -> 8
      [] p_pc = "collect" -> 7
      [] p_pc = "store_companies" -> 6
      [] p_pc = "enhance" -> 5
      [] p_pc = "enhancing" -> 4
      [] p_pc = "clear" -> 3
      [] p_pc \in {"store", "store_jobs"} -> 2
      [] p_pc = "cleanup" -> 1
      [] OTHER -> 0

LoopAhead ==
    CASE p_pc = "collect" -> Len(p_companies) - p_ci
      [] p_pc = "enhancing" -> Cardinality(p_pending)
      [] OTHER -> 0

\* the statement at which the run stands can be executed: the two job-storing
\* statements are total at their position, the others are asked of the actions
CanStep ==
    \/ p_pc = "store_jobs"
    \/ p_pc = "store" /\ p_config.variant = "async"
    \/ ENABLED (\/ SyncStart \/ SyncDiscover \/ SyncCollectCompany \/ SyncCollected
                \/ AsyncDiscover \/ AsyncCollect
                \/ SyncStoreCompanies \/ SyncEnhanceBegin \/ AsyncEnhanceBegin
                \/ EnhanceStep \/ EnhanceRaises \/ EnhanceEnd
                \/ SwapClear \/ SwapStore \/ TimeWindowCleanup)

\* C25: whatever failed, a run that has not returned has a next statement
\* to execute, every statement brings it nearer to its return, and it
\* returns the counters.
C25_RunReturnsStats ==
    /\ [](p_pc # "done" => CanStep)
    /\ [][\/ PhasesAhead' < PhasesAhead
          \/ PhasesAhead' = PhasesAhead /\ LoopAhead' < LoopAhead]_vars
    /\ [](p_pc = "done" => DOMAIN p_stats = {"errors", "jobs_stored", "jobs_removed"})

C25_Witness ==
    /\ p_pc = "done" /\ p_fault = "truncate" /\ p_config.variant = "swap"
    /\ p_stats.errors = 1 /\ p_stats.jobs_stored = 0

\* a failure the run went on after: a company whose collection hit a fault, an
\* enrichment call that raised or timed out, a job write that stored nothing
AbsorbedFailure ==
    \/ p_failed # {}
    \/ \E i \in DOMAIN p_outcomes : p_outcomes[i] \in {"raise", "timeout"}
    \/ JobWritesFailed

\* C26: a run that returned after absorbing the failure of a company's
\* collection, of a record's enrichment or of a job write reports a non-zero
\* error counter.
C26_FailuresCounted ==
    (p_pc = "done" /\ AbsorbedFailure) => p_stats.errors > 0

-----------------------------------------------------------------------------
(* SpecEnhance: the enrichment loop of the full-swap orchestrator and the   *)
(* pool threads it starts.                                                  *)

EnhanceOthers == <<mvars, cvars, pvars, fvars, gvars, wvars, uvars, tvars, svars, avars, ivars>>

EnhanceInit ==
    /\ MIdle /\ CIdle /\ PIdle /\ FIdle /\ GIdle /\ WIdle /\ UIdle /\ TIdle /\ SIdle /\ AIdle /\ IIdle
    /\ e_pc = "loop"
    /\ e_n \in 1 .. MaxJobs
    /\ e_i = 0
    /\ e_sem = 1
    /\ e_running = {}
    /\ e_enhanced = <<>>

\* after the record's call: asyncio.sleep(5) unless it was the last record
AfterRecord == IF e_i < e_n THEN "sleep" ELSE "loop"

\* scraper.py lines 160-173: enhance_single_job takes the semaphore and
\* run_in_executor starts scrape_job_page in a pool thread
EnhanceSubmit ==
    /\ e_pc = "loop" /\ e_i < e_n /\ e_sem > 0
    /\ e_sem' = e_sem - 1
    /\ e_i' = e_i + 1
    /\ e_running' = e_running \cup {e_i + 1}
    /\ e_pc' = "await"
    /\ UNCHANGED <<e_n, e_enhanced, EnhanceOthers>>

\* the thread of the awaited record returns or raises within the 30 seconds
EnhanceResult ==
    /\ e_pc = "await" /\ e_i \in e_running
    /\ \E outcome \in ThreadOutcomes : e_enhanced' = Append(e_enhanced, outcome)
    /\ e_running' = e_running \ {e_i}
    /\ e_sem' = e_sem + 1
    /\ e_pc' = AfterRecord
    /\ UNCHANGED <<e_n, e_i, EnhanceOthers>>

\* scraper.py lines 206-208: wait_for raises TimeoutError after 30 seconds and
\* cancels the executor's future; the thread, which is running, is not
\* stopped (session.get of page_parser.py has no timeout)
EnhanceTimeout ==
    /\ e_pc = "await" /\ e_i \in e_running
    /\ e_enhanced' = Append(e_enhanced, "timeout")
    /\ e_sem' = e_sem + 1
    /\ e_pc' = AfterRecord
    /\ UNCHANGED <<e_n, e_i, e_running, EnhanceOthers>>

\* a thread whose call has timed out comes to the end of scrape_job_page
EnhanceThreadEnds ==
    /\ \E k \in e_running :
          /\ ~(e_pc = "await" /\ k = e_i)
          /\ e_running' = e_running \ {k}
    /\ UNCHANGED <<e_pc, e_n, e_i, e_sem, e_enhanced, EnhanceOthers>>

\* scraper.py lines 227-229
EnhanceSleep ==
    /\ e_pc = "sleep"
    /\ e_pc' = "loop"
    /\ UNCHANGED <<e_n, e_i, e_sem, e_running, e_enhanced, EnhanceOthers>>

\* the loop has been through every record
EnhanceReturn ==
    /\ e_pc = "loop" /\ e_i = e_n
    /\ e_pc' = "done"
    /\ UNCHANGED <<e_n, e_i, e_sem, e_running, e_enhanced, EnhanceOthers>>

EnhanceNext ==
    \/ EnhanceSubmit \/ EnhanceResult \/ EnhanceTimeout
    \/ EnhanceThreadEnds \/ EnhanceSleep \/ EnhanceReturn

SpecEnhance == EnhanceInit /\ [][EnhanceNext]_vars

\* C27: at no moment of the enrichment step are two executions of
\* scrape_job_page in progress.
C27_OneFetchAtATime ==
    Cardinality(e_running) <= 1

-----------------------------------------------------------------------------
(* SpecWorkers: one call of WorkAzClient.get_all_workers.                   *)

WorkersOthers == <<mvars, cvars, pvars, fvars, gvars, wvars, uvars, tvars, svars, evars, ivars>>

(* What a request for a page comes to:                                      *)
(*   "ok"         a 200 response with success true and well-formed content  *)
(*   "error"      get_full_time_workers raises (HTTP status, timeout, ...)  *)
(*   "refused"    a 200 response with success false                         *)
(*   "malformed"  a 200 response, success true, a content entry without     *)
(*                one of the keys parse_workers indexes                     *)
PageResults == {"ok", "error", "refused", "malformed"}

\* the profiles of a page, named by page and position
Profiles(page) == << <<page, 1>>, <<page, 2>> >>

\* parse_workers(response): empty unless success and content; a KeyError on
\* an entry without a required key
parse_workers(page, result) ==
    CASE result = "ok"        -> [raised |-> FALSE, workers |-> Profiles(page)]
      [] result = "refused"   -> [raised |-> FALSE, workers |-> <<>>]
      [] result = "malformed" -> [raised |-> TRUE,  workers |-> <<>>]

\* list(range(batch_start, batch_end + 1))
BatchPages(batch_start, batch_size, total_pages) ==
    [k \in 1 .. (Min(batch_start + batch_size - 1, total_pages) - batch_start + 1)
        |-> batch_start + k - 1]

\* the loop over the responses of one batch: exceptions are skipped, the
\* others parsed; a parse error leaves the try block before all_workers.extend
BatchWorkers(upstream, pages) ==
    LET parsed == [k \in DOMAIN pages |->
                      IF upstream[pages[k]] = "error"
                      THEN [raised |-> FALSE, workers |-> <<>>]
                      ELSE parse_workers(pages[k], upstream[pages[k]])]
    IN  IF \E k \in DOMAIN pages : parsed[k].raised
        THEN <<>>
        ELSE Concat([k \in DOMAIN pages |-> parsed[k].workers])

WorkersInit ==
    /\ MIdle /\ CIdle /\ PIdle /\ FIdle /\ GIdle /\ WIdle /\ UIdle /\ TIdle /\ SIdle /\ EIdle /\ IIdle
    /\ a_pc = "first"
    /\ a_total \in 1 .. MaxTotalPages
    /\ a_upstream \in [1 .. a_total -> PageResults]
    /\ a_batch_size \in 1 .. MaxBatch
    /\ a_start = 0
    /\ a_batches = <<>> /\ a_requested = <<>> /\ a_all = <<>>

\* work_az_client.py lines 183-198: the first page, its totals, its workers
WorkersFirst ==
    /\ a_pc = "first"
    /\ a_requested' = Append(a_requested, 1)
    /\ IF a_upstream[1] = "ok"
       THEN /\ a_all' = parse_workers(1, "ok").workers
            /\ a_start' = 2
            /\ a_pc' = "batch"
       ELSE /\ a_pc' = "raised"
            /\ UNCHANGED <<a_all, a_start>>
    /\ UNCHANGED <<a_upstream, a_batch_size, a_total, a_batches, WorkersOthers>>

\* work_az_client.py lines 201-227: one batch
WorkersBatch ==
    /\ a_pc = "batch" /\ a_start <= a_total
    /\ LET pages == BatchPages(a_start, a_batch_size, a_total)
       IN  /\ a_batches' = Append(a_batches, pages)
           /\ a_requested' = a_requested \o pages
           /\ a_all' = a_all \o BatchWorkers(a_upstream, pages)
    /\ a_start' = a_start + a_batch_size
    /\ UNCHANGED <<a_pc, a_upstream, a_batch_size, a_total, WorkersOthers>>

\* work_az_client.py lines 229-230
WorkersReturn ==
    /\ a_pc = "batch" /\ a_start > a_total
    /\ a_pc' = "done"
    /\ UNCHANGED <<a_upstream, a_batch_size, a_total, a_start, a_batches, a_requested,
                   a_all, WorkersOthers>>

WorkersNext == WorkersFirst \/ WorkersBatch \/ WorkersReturn

SpecWorkers == WorkersInit /\ [][WorkersNext]_vars

\* the workers of the pages whose request succeeded, in page order
SucceededWorkers ==
    Concat([p \in 1 .. a_total |-> IF a_upstream[p] = "ok" THEN Profiles(p) ELSE <<>>])

\* C28: page 1 is requested first and then the pages 2..totalPages once
\* each, in consecutive batches of at most batch_size pages; when the call
\* returns, the batches partition 2..totalPages and the result is the
\* concatenation of the workers of every page that succeeded; a failed first
\* page raises.
C28_EveryPageOnceResultComplete ==
    /\ \A k \in DOMAIN a_requested : a_requested[k] = k
    /\ \A b \in DOMAIN a_batches :
          /\ Len(a_batches[b]) \in 1 .. a_batch_size
          /\ \A k \in DOMAIN a_batches[b] : a_batches[b][k] = a_batches[b][1] + k - 1
    /\ a_pc = "raised" => a_upstream[1] # "ok"
    /\ a_pc = "done" =>
          /\ a_requested = [k \in 1 .. a_total |-> k]
          /\ Concat(a_batches) = [k \in 1 .. a_total - 1 |-> k + 1]
          /\ a_all = SucceededWorkers

-----------------------------------------------------------------------------
(* SpecIterate: one call of APIJobScraper.scrape_all_jobs_iteratively.      *)

IterateOthers ==
    <<mvars, cvars, pvars, fvars, gvars, wvars, uvars, tvars, svars, evars, avars>>

\* list(discovered_companies): the elements of the set in some order
ListsOf(S) == UNION { {s \in [1 .. Cardinality(T) -> T] : Range(s) = T} : T \in SUBSET S }

\* api_scraper.py lines 264-281: the set discovered before the loop, from
\* get_all_companies and the general listing, and the list made of it
IterateInit ==
    /\ MIdle /\ CIdle /\ PIdle /\ FIdle /\ GIdle /\ WIdle /\ UIdle /\ TIdle /\ SIdle /\ EIdle /\ AIdle
    /\ i_pc = "loop"
    /\ i_found \in [IterCompanies -> SUBSET IterCompanies]
    /\ i_max \in 0 .. MaxLimit
    /\ i_list \in ListsOf(IterCompanies)
    /\ i_k = 0
    /\ i_discovered = Range(i_list)
    /\ i_processed = {} /\ i_calls = <<>> /\ i_count = 0

\* if max_companies and companies_processed >= max_companies
LimitReached == i_max # 0 /\ i_count >= i_max

\* api_scraper.py lines 285-306: one element of the list
IterateStep ==
    /\ i_pc = "loop" /\ i_k < Len(i_list) /\ ~LimitReached
    /\ LET company_slug == i_list[i_k + 1]
       IN  IF company_slug \in i_processed
           THEN UNCHANGED <<i_discovered, i_processed, i_calls, i_count>>
           ELSE /\ i_calls' = Append(i_calls, company_slug)
                /\ i_discovered' = i_discovered \cup i_found[company_slug]
                /\ i_processed' = i_processed \cup {company_slug}
                /\ i_count' = i_count + 1
    /\ i_k' = i_k + 1
    /\ UNCHANGED <<i_pc, i_found, i_max, i_list, IterateOthers>>

\* api_scraper.py lines 286-287: break
IterateBreak ==
    /\ i_pc = "loop" /\ i_k < Len(i_list) /\ LimitReached
    /\ i_pc' = "done"
    /\ UNCHANGED <<i_found, i_max, i_list, i_k, i_discovered, i_processed, i_calls,
                   i_count, IterateOthers>>

\* api_scraper.py lines 308-309: the list is exhausted
IterateReturn ==
    /\ i_pc = "loop" /\ i_k = Len(i_list)
    /\ i_pc' = "done"
    /\ UNCHANGED <<i_found, i_max, i_list, i_k, i_discovered, i_processed, i_calls,
                   i_count, IterateOthers>>

IterateNext == IterateStep \/ IterateBreak \/ IterateReturn

SpecIterate == IterateInit /\ [][IterateNext]_vars

TimesCalled(c) == Cardinality({k \in DOMAIN i_calls : i_calls[k] = c})

\* C29: no company is processed twice, and when the call returns without
\* having reached max_companies every slug of the discovered set, those
\* found during the loop included, has been processed once.
C29_EveryDiscoveredProcessedOnce ==
    /\ \A c \in IterCompanies : TimesCalled(c) <= 1
    /\ (i_pc = "done" /\ ~LimitReached) =>
           \A c \in i_discovered : TimesCalled(c) = 1
=============================================================================
